---------------------------- MODULE Spec2Model ----------------------------
(***************************************************************************)
(* A model of the Remix Vite plugin (packages/remix-dev/vite/plugin.ts):   *)
(* the asset graph resolver, the browser manifest synthesis for build and  *)
(* for development, the route export checks, and the dev server's watcher  *)
(* handler and hot-update hook.                                            *)
(*                                                                         *)
(* Strings are sequences of tokens, so that concatenation, startsWith and  *)
(* endsWith are computed and not assumed.                                  *)
(***************************************************************************)
EXTENDS Integers, Sequences, FiniteSets, Bags, TLC

(***************************************************************************)
(* Bounds of the model.                                                    *)
(***************************************************************************)
\* Depth of nested walk() calls the JavaScript stack allows before it throws
\* RangeError; larger than the longest import chain without a repetition.
StackLimit == 6
\* Largest number of import keys a chunk of the generated manifests has.
MaxImports == 2

(***************************************************************************)
(* Strings                                                                 *)
(***************************************************************************)
Range(s) == {s[i] : i \in 1..Len(s)}

StartsWith(s, p) == Len(p) <= Len(s) /\ SubSeq(s, 1, Len(p)) = p

EndsWith(s, p) == Len(p) <= Len(s) /\ SubSeq(s, Len(s) - Len(p) + 1, Len(s)) = p

CLIENT_ROUTE_QUERY_STRING == <<"?client-route">>

\* [...new Set(array)]: the first occurrence of every value, in order.
\* a list left as it is
dedupeNot(array) == array

RECURSIVE dedupe(_)
dedupe(array) ==
  IF array = <<>> THEN <<>>
  ELSE LET front == dedupe(SubSeq(array, 1, Len(array) - 1))
           last == array[Len(array)]
       IN IF last \in Range(front) THEN front ELSE Append(front, last)

RECURSIVE FlatMap(_, _)
\* seq.flatMap(f) for a function f given as a TLA+ function on the elements
FlatMap(f, seq) ==
  IF seq = <<>> THEN <<>> ELSE f[Head(seq)] \o FlatMap(f, Tail(seq))

(***************************************************************************)
(* Asset graph resolver                                                    *)
(***************************************************************************)
VARIABLES
  viteManifest,   \* the bundler manifest: chunk key -> [file, imports, css]
  seeds,          \* the entry chunks handed to resolveDependantChunks
  walked          \* its outcome: [done, err, chunks]

assetVars == <<viteManifest, seeds, walked>>

\* chunks.add(chunk) on a Set kept in insertion order
SetAdd(chunks, k) == IF k \in Range(chunks) THEN chunks ELSE Append(chunks, k)

RECURSIVE walk(_, _, _, _)
RECURSIVE walkImports(_, _, _, _)

\* walk as written: the chunk is added after its imports have been walked.
\* st = [err, chunks]; an error ends every enclosing call (an exception).
\* A chunk is the object stored under its key; an absent key is undefined.
walk(m, k, st, depth) ==
  IF st.err # "none" THEN st
  ELSE IF depth > StackLimit THEN [st EXCEPT !.err = "RangeError"]
  ELSE IF k \in Range(st.chunks) THEN st
  ELSE IF k \notin DOMAIN m THEN [st EXCEPT !.err = "TypeError"]
  ELSE LET after == walkImports(m, m[k].imports, st, depth)
       IN IF after.err # "none" THEN after
          ELSE [after EXCEPT !.chunks = SetAdd(after.chunks, k)]

walkImports(m, imports, st, depth) ==
  IF imports = <<>> \/ st.err # "none" THEN st
  ELSE walkImports(m, Tail(imports), walk(m, Head(imports), st, depth + 1), depth)

\* a walk that marks the chunk as visited before it walks the imports
RECURSIVE walkMarkFirst(_, _, _, _)
RECURSIVE walkImportsMarkFirst(_, _, _, _)
walkMarkFirst(m, k, st, depth) ==
  IF st.err # "none" THEN st
  ELSE IF depth > StackLimit THEN [st EXCEPT !.err = "RangeError"]
  ELSE IF k \in Range(st.chunks) THEN st
  ELSE IF k \notin DOMAIN m THEN [st EXCEPT !.err = "TypeError"]
  ELSE walkImportsMarkFirst(m, m[k].imports,
                            [st EXCEPT !.chunks = Append(st.chunks, k)], depth)

walkImportsMarkFirst(m, imports, st, depth) ==
  IF imports = <<>> \/ st.err # "none" THEN st
  ELSE walkImportsMarkFirst(m, Tail(imports),
                            walkMarkFirst(m, Head(imports), st, depth + 1), depth)

RECURSIVE walkAll(_, _, _)
walkAll(m, entryChunks, st) ==
  IF entryChunks = <<>> THEN st
  ELSE walkAll(m, Tail(entryChunks), walk(m, Head(entryChunks), st, 1))

resolveDependantChunks(m, entryChunks) ==
  walkAll(m, entryChunks, [err |-> "none", chunks |-> <<>>])

(***************************************************************************)
(* Paths, routes and the plugin context                                    *)
(***************************************************************************)
rootDirectory == <<"/", "p">>
appDirectory == <<"/", "p", "/", "app">>
publicPath == <<"/">>

\* path.join / path.resolve of a directory and a relative path
Join(dir, rel) == dir \o <<"/">> \o rel

\* path.relative(from, to): the rest of `to` when it lies below `from`, and a
\* path that climbs out of `from` (it starts with "..") otherwise.
Relative(from, to) ==
  IF StartsWith(to, from \o <<"/">>) THEN SubSeq(to, Len(from) + 2, Len(to))
  ELSE <<"..">> \o to

RootFile == <<"root.tsx">>
AboutFile == <<"routes", "/", "about.tsx">>
entryClientFilePath == Join(appDirectory, <<"entry.client.tsx">>)

\* ConfigRoute; parentId "undefined" stands for the JavaScript undefined
RootRoute == [id |-> "root", parentId |-> "undefined", path |-> "", file |-> RootFile]
AboutRoute ==
  [id |-> "routes/about", parentId |-> "root", path |-> "about", file |-> AboutFile]

\* The routes object as the sequence of its entries in insertion order; the
\* key of an entry is the id of its route.
RoutesOf(withAbout) == IF withAbout THEN <<RootRoute, AboutRoute>> ELSE <<RootRoute>>

RouteKeys(routes) == {routes[i].id : i \in 1..Len(routes)}

\* ResolvedVitePluginConfig, with the fields the model reads. serverBundles
\* is a function (or "undefined"): "fnA" and "fnB" are two function objects.
RemixConfig(routes, ssr, serverBundles) ==
  [appDirectory |-> appDirectory, publicPath |-> publicPath, routes |-> routes,
   unstable_ssr |-> ssr, serverBundles |-> serverBundles]

\* RemixPluginContext
Context(remixConfig, entryClient, isSsrBuild) ==
  [remixConfig |-> remixConfig, rootDirectory |-> rootDirectory,
   entryClientFilePath |-> entryClient, isSsrBuild |-> isSsrBuild]

\* the JavaScript undefined where a route is expected
NoRoute == [id |-> "undefined"]

\* getRoute(pluginConfig, file): the route whose file is `file`, or undefined
getRoute(pluginConfig, file) ==
  IF ~StartsWith(file, pluginConfig.appDirectory) THEN NoRoute
  ELSE LET routePath == Relative(pluginConfig.appDirectory, file)
           found == {i \in 1..Len(pluginConfig.routes) :
                       pluginConfig.routes[i].file = routePath}
       IN IF found = {} THEN NoRoute
          ELSE pluginConfig.routes[CHOOSE i \in found : \A j \in found : i <= j]

(***************************************************************************)
(* resolveChunk and resolveBuildAssetPaths                                 *)
(***************************************************************************)
\* a lookup whose error lists no key
resolveChunkSilent(c, m, absoluteFilePath) ==
  LET rootRelativeFilePath == Relative(c.rootDirectory, absoluteFilePath)
  IN IF rootRelativeFilePath \o CLIENT_ROUTE_QUERY_STRING \in DOMAIN m
     THEN [err |-> "none", key |-> rootRelativeFilePath \o CLIENT_ROUTE_QUERY_STRING]
     ELSE IF rootRelativeFilePath \in DOMAIN m
     THEN [err |-> "none", key |-> rootRelativeFilePath]
     ELSE [err |-> "NoManifestEntry", key |-> rootRelativeFilePath,
           knownManifestKeys |-> {}]

\* a lookup that prefers the bare key
resolveChunkBareFirst(c, m, absoluteFilePath) ==
  LET rootRelativeFilePath == Relative(c.rootDirectory, absoluteFilePath)
  IN IF rootRelativeFilePath \in DOMAIN m
     THEN [err |-> "none", key |-> rootRelativeFilePath]
     ELSE IF rootRelativeFilePath \o CLIENT_ROUTE_QUERY_STRING \in DOMAIN m
     THEN [err |-> "none", key |-> rootRelativeFilePath \o CLIENT_ROUTE_QUERY_STRING]
     ELSE [err |-> "NoManifestEntry", key |-> rootRelativeFilePath,
           knownManifestKeys |-> DOMAIN m]

\* The key of the chunk of a file, or an error listing the known keys
resolveChunk(c, m, absoluteFilePath) ==
  LET rootRelativeFilePath == Relative(c.rootDirectory, absoluteFilePath)
  IN IF rootRelativeFilePath \o CLIENT_ROUTE_QUERY_STRING \in DOMAIN m
     THEN [err |-> "none", key |-> rootRelativeFilePath \o CLIENT_ROUTE_QUERY_STRING]
     ELSE IF rootRelativeFilePath \in DOMAIN m
     THEN [err |-> "none", key |-> rootRelativeFilePath]
     ELSE [err |-> "NoManifestEntry", key |-> rootRelativeFilePath,
           knownManifestKeys |-> DOMAIN m]

resolveBuildAssetPaths(c, m, entryFilePath, prependedAssetFilePaths) ==
  LET entryChunk == resolveChunk(c, m, entryFilePath)
      prepended == [i \in 1..Len(prependedAssetFilePaths) |->
                      resolveChunk(c, m, prependedAssetFilePaths[i])]
  IN IF entryChunk.err # "none" THEN [err |-> entryChunk.err]
     ELSE IF \E i \in 1..Len(prepended) : prepended[i].err # "none"
     THEN [err |-> "NoManifestEntry"]
     ELSE
       LET chunks == resolveDependantChunks(m,
                       [i \in 1..Len(prepended) |-> prepended[i].key]
                         \o <<entryChunk.key>>)
       IN IF chunks.err # "none" THEN [err |-> chunks.err]
          ELSE
            LET imported == dedupe(FlatMap([k \in DOMAIN m |-> m[k].imports],
                                           chunks.chunks))
                hrefs == dedupe(FlatMap([k \in DOMAIN m |-> m[k].css], chunks.chunks))
            IN [err |-> "none",
                module |-> c.remixConfig.publicPath \o m[entryChunk.key].file
                             \o CLIENT_ROUTE_QUERY_STRING,
                imports |-> [i \in 1..Len(imported) |->
                               c.remixConfig.publicPath \o m[imported[i]].file],
                css |-> [i \in 1..Len(hrefs) |-> c.remixConfig.publicPath \o hrefs[i]]]

(***************************************************************************)
(* The state of the plugin closure                                         *)
(***************************************************************************)
VARIABLES
  viteCommand,        \* viteConfigEnv.command, set by the config hook
  viteConfig,         \* the resolved config of the bundler, set by configResolved
  viteChildCompiler,  \* the child compiler, null until configResolved creates it
  startup             \* the position of the configResolved hook

pluginVars == <<viteCommand, viteConfig, viteChildCompiler, startup>>

\* A PluginOption of a config: a plugin object, an array of options, or a
\* falsy value
PluginObject(name) == [kind |-> "plugin", name |-> name]
PluginArray(items) == [kind |-> "array", items |-> items]
FalsyPlugin == [kind |-> "false"]

\* the array remixVitePlugin returns, by the names of its plugins
RemixPlugins ==
  [i \in 1..9 |-> PluginObject(
     <<"remix", "remix-virtual-modules", "remix-dot-server", "remix-dot-client",
       "remix-route-exports", "remix-inject-hmr-runtime", "remix-hmr-runtime",
       "remix-react-refresh-babel", "remix-hmr-updates">>[i])]

RECURSIVE Flat(_)
\* array.flat(): the arrays among the elements are replaced by their
\* elements, one level deep
Flat(options) ==
  IF options = <<>> THEN <<>>
  ELSE (IF Head(options).kind = "array" THEN Head(options).items ELSE <<Head(options)>>)
         \o Flat(Tail(options))

RECURSIVE FilterPlugins(_, _)
\* the plugin objects of the flattened list whose name is none of the excluded
FilterPlugins(options, excluded) ==
  IF options = <<>> THEN <<>>
  ELSE (IF Head(options).kind = "plugin" /\ Head(options).name \notin excluded
        THEN <<Head(options)>> ELSE <<>>)
         \o FilterPlugins(Tail(options), excluded)

\* a child compiler given every plugin of the config
ChildPluginsUnfiltered(configPlugins) == FilterPlugins(Flat(configPlugins), {})

\* plugins: [...(childCompilerConfigFile.config.plugins ?? []).flat().filter(...)]
ChildPlugins(configPlugins) ==
  FilterPlugins(Flat(configPlugins), {"remix", "remix-hmr-updates"})

\* createServer calls the configResolved hooks of the plugins it is given:
\* that of the plugin "remix" is the one that creates a child compiler
CreatesChildCompiler(plugins) == \E i \in 1..Len(plugins) : plugins[i].name = "remix"

\* startup when configResolved has returned
Ready(plugins) == [pc |-> "ready", plugins |-> plugins]

\* the hooks config and configResolved have run
PluginStarted(command) ==
  /\ viteCommand = command
  /\ viteConfig = [configFile |-> Join(rootDirectory, <<"vite.config.ts">>)]
  /\ viteChildCompiler = "created"
  /\ startup = Ready(ChildPlugins(<<PluginArray(RemixPlugins)>>))

(***************************************************************************)
(* Export classification                                                   *)
(***************************************************************************)
\* a denylist that lets headers through
SERVER_ONLY_WITHOUT_HEADERS == <<"loader", "action">>

SERVER_ONLY_ROUTE_EXPORTS == <<"loader", "action", "headers">>

ClassifyErrors == {"CompileError", "Unresolvable", "ENOENT"}

\* A source file that compiles to a module with the export names `names`
Source(names) == [err |-> "none", exportNames |-> names]

\* A source file that is there and that the child compiler fails on
Broken(err) == [err |-> err]

\* a classification that yields no exports for a route it cannot compile
getRouteModuleExportsLenient(files, routeFile) ==
  IF routeFile \notin DOMAIN files \/ files[routeFile].err # "none"
  THEN [err |-> "none", exportNames |-> <<>>]
  ELSE files[routeFile]

\* getRouteModuleExports: the export names of the compiled route module, or
\* the error of the step that failed. `files` maps a route file to the export
\* list of its source, or to the failure compiling it meets.
getRouteModuleExports(files, routeFile) ==
  IF viteChildCompiler = "null" THEN [err |-> "ChildCompilerNotFound"]
  ELSE IF routeFile \notin DOMAIN files THEN [err |-> "ENOENT"]
  ELSE files[routeFile]

\* getRouteManifestModuleExports: Promise.all over the routes of the context
\* it was called with; it rejects when one classification rejects.
getRouteManifestModuleExports(files, routes) ==
  LET each == [i \in 1..Len(routes) |-> getRouteModuleExports(files, routes[i].file)]
      failed == {i \in 1..Len(routes) : each[i].err # "none"}
  IN IF failed # {}
     THEN [err |-> each[CHOOSE i \in failed : \A j \in failed : i <= j].err]
     ELSE [err |-> "none",
           exports |-> [k \in RouteKeys(routes) |->
                          each[CHOOSE i \in 1..Len(routes) : routes[i].id = k].exportNames]]

Includes(seq, x) == x \in Range(seq)

\* flags that take an action for a loader
RouteFlagsSwapped(route, sourceExports) ==
  [id |-> route.id, parentId |-> route.parentId, path |-> route.path,
   hasAction |-> Includes(sourceExports, "loader"),
   hasLoader |-> Includes(sourceExports, "action"),
   hasClientAction |-> Includes(sourceExports, "clientAction"),
   hasClientLoader |-> Includes(sourceExports, "clientLoader"),
   hasErrorBoundary |-> Includes(sourceExports, "ErrorBoundary")]

\* The identity fields and the capability flags of a manifest route
RouteFlags(route, sourceExports) ==
  [id |-> route.id, parentId |-> route.parentId, path |-> route.path,
   hasAction |-> Includes(sourceExports, "action"),
   hasLoader |-> Includes(sourceExports, "loader"),
   hasClientAction |-> Includes(sourceExports, "clientAction"),
   hasClientLoader |-> Includes(sourceExports, "clientLoader"),
   hasErrorBoundary |-> Includes(sourceExports, "ErrorBoundary")]

(***************************************************************************)
(* Production manifest synthesis (createBrowserManifestForBuild)           *)
(***************************************************************************)
VARIABLES
  ctx,          \* the plugin context, replaced by updateRemixPluginContext
  files,        \* the route files on disk: file -> export list, or the
                \* failure compiling it meets
  build,        \* the synthesis in flight: [pc, n, entry, manifest, err]
  disk,         \* the manifest files below the client build directory
  sha,          \* the digests computed so far: fingerprinted content -> digest
  published,    \* the manifests returned so far, in order
  transformed   \* the outcome of the last remix-route-exports transform

buildVars == <<ctx, files, build, disk, sha, published, transformed>>

\* The state of the dev server
VARIABLES
  serverBundlesNow, \* the serverBundles function the adapter returns now
  events,           \* the number of events the watcher has emitted
  watchers,         \* the calls of the watcher handler that await
  lastWatch,        \* the call of the watcher handler that returned last
  hmrs,             \* the calls of handleHotUpdate that have not settled
  lastHmr,          \* the call of handleHotUpdate that settled last
  vmods,            \* the virtual modules in the module graph of the server
  synth             \* the call of getBrowserManifestForDev, in flight or settled

devVars == <<serverBundlesNow, events, watchers, lastWatch, hmrs, lastHmr, vmods, synth>>

\* Number of values of an 8 hex digit digest prefix (16^8 in the program)
HashValues == 2

\* JSON.stringify of a manifest route: a property that is undefined is left out
JsonRoute(r) ==
  IF r.parentId = "undefined"
  THEN [x \in (DOMAIN r) \ {"parentId"} |-> r[x]]
  ELSE r

\* JSON.stringify({entry, routes})
JsonFingerprinted(entry, routes) ==
  [entry |-> entry, routes |-> [i \in 1..Len(routes) |-> JsonRoute(routes[i])]]

\* a fingerprint that also depends on the synthesis that computes it
FingerprintSourceWithRun(entry, routes, n) ==
  [entry |-> entry, routes |-> routes, run |-> n]

\* what getHash is given in createBrowserManifestForBuild; n is the number of
\* the synthesis, which the fingerprint does not read
FingerprintSource(entry, routes, n) == JsonFingerprinted(entry, routes)

ManifestPath(version) == <<"assets", "/", "manifest-", ToString(version), ".js">>

\* a loop that prepends the client entry for every route
AssembleRoutesWithEntryEverywhere(c, m, routeManifestExports) ==
  LET routes == c.remixConfig.routes
      assets == [i \in 1..Len(routes) |->
                   resolveBuildAssetPaths(c, m,
                     Join(c.remixConfig.appDirectory, routes[i].file),
                     <<c.entryClientFilePath>>)]
      failed == {i \in 1..Len(routes) : assets[i].err # "none"}
  IN IF failed # {}
     THEN [err |-> assets[CHOOSE i \in failed : \A j \in failed : i <= j].err]
     ELSE [err |-> "none",
           routes |-> [i \in 1..Len(routes) |->
                         RouteFlags(routes[i], routeManifestExports[routes[i].id])
                           @@ [module |-> assets[i].module,
                               imports |-> assets[i].imports,
                               css |-> assets[i].css]]]

\* The routes of the manifest, assembled by the loop over ctx.remixConfig.routes;
\* the first asset resolution that throws ends the loop.
AssembleRoutesForBuild(c, m, routeManifestExports) ==
  LET routes == c.remixConfig.routes
      assets == [i \in 1..Len(routes) |->
                   resolveBuildAssetPaths(c, m,
                     Join(c.remixConfig.appDirectory, routes[i].file),
                     IF routes[i].parentId = "undefined"
                     THEN <<c.entryClientFilePath>> ELSE <<>>)]
      failed == {i \in 1..Len(routes) : assets[i].err # "none"}
  IN IF failed # {}
     THEN [err |-> assets[CHOOSE i \in failed : \A j \in failed : i <= j].err]
     ELSE [err |-> "none",
           routes |-> [i \in 1..Len(routes) |->
                         RouteFlags(routes[i], routeManifestExports[routes[i].id])
                           @@ [module |-> assets[i].module,
                               imports |-> assets[i].imports,
                               css |-> assets[i].css]]]

Idle == [pc |-> "idle", n |-> 0]

Failed(err) == [pc |-> "failed", n |-> build.n, err |-> err]

\* loadViteManifest and the asset paths of the client entry
BuildStart ==
  /\ build.pc = "idle"
  /\ LET entry == resolveBuildAssetPaths(ctx, viteManifest,
                                         ctx.entryClientFilePath, <<>>)
     IN build' = IF entry.err # "none" THEN Failed(entry.err)
                 ELSE [pc |-> "classifying", n |-> build.n,
                       entry |-> [module |-> entry.module,
                                  imports |-> entry.imports, css |-> entry.css]]
  /\ UNCHANGED <<pluginVars, ctx, files, disk, sha, published, transformed, assetVars, devVars>>

\* The classification has settled: the routes are assembled, the fingerprint
\* is computed and writeFileSafe is called.
BuildAssemble ==
  /\ build.pc = "classifying"
  /\ LET classified == getRouteManifestModuleExports(files, ctx.remixConfig.routes)
         assembled == AssembleRoutesForBuild(ctx, viteManifest, classified.exports)
     IN IF classified.err # "none"
        THEN build' = Failed(classified.err) /\ sha' = sha
        ELSE IF assembled.err # "none"
        THEN build' = Failed(assembled.err) /\ sha' = sha
        ELSE
          LET source == FingerprintSource(build.entry, assembled.routes, build.n)
          IN \E version \in 0..(HashValues - 1) :
               /\ source \in DOMAIN sha => version = sha[source]
               /\ sha' = IF source \in DOMAIN sha THEN sha
                         ELSE [x \in DOMAIN sha \cup {source} |->
                                 IF x = source THEN version ELSE sha[x]]
               /\ build' = [pc |-> "ensureDir", n |-> build.n,
                            manifest |-> [entry |-> build.entry,
                                          routes |-> assembled.routes,
                                          url |-> ctx.remixConfig.publicPath
                                                    \o ManifestPath(version),
                                          version |-> version]]
  /\ UNCHANGED <<pluginVars, ctx, files, disk, published, transformed, assetVars, devVars>>

\* getClientBuildDirectory of the default buildDirectory, "build" below the root
clientBuildDirectory == Join(rootDirectory, <<"build", "/", "client">>)

\* path.dirname
Dirname(p) ==
  LET slashes == {i \in 1..Len(p) : p[i] = "/"}
  IN IF slashes = {} THEN <<".">>
     ELSE SubSeq(p, 1, (CHOOSE i \in slashes : \A j \in slashes : j <= i) - 1)

\* JSON.stringify(manifest)
JsonManifest(manifest) ==
  [entry |-> manifest.entry,
   routes |-> [i \in 1..Len(manifest.routes) |-> JsonRoute(manifest.routes[i])],
   url |-> manifest.url, version |-> manifest.version]

\* a file that holds the fingerprinted values alone
ManifestFileContentsFingerprinted(manifest) ==
  <<"window.__remixManifest=", JsonFingerprinted(manifest.entry, manifest.routes), ";">>

\* `window.__remixManifest=${JSON.stringify(manifest)};`
ManifestFileContents(manifest) ==
  <<"window.__remixManifest=", JsonManifest(manifest), ";">>

\* the file writeFileSafe is given
ManifestFile(manifest) == Join(clientBuildDirectory, ManifestPath(manifest.version))

\* await fse.ensureDir(path.dirname(file))
BuildEnsureDir ==
  /\ build.pc = "ensureDir"
  /\ \E ok \in BOOLEAN :
       IF ok
       THEN /\ build' = [build EXCEPT !.pc = "writeFile"]
            /\ disk' = disk \cup {[kind |-> "dir",
                                   path |-> Dirname(ManifestFile(build.manifest))]}
       ELSE build' = Failed("EACCES") /\ disk' = disk
  /\ UNCHANGED <<pluginVars, ctx, files, sha, published, transformed, assetVars, devVars>>

\* a write that is not awaited
BuildWriteFileDetached ==
  /\ build.pc = "writeFile"
  /\ build' = [build EXCEPT !.pc = "written"]
  /\ \E ok \in BOOLEAN :
       disk' = IF ok THEN disk \cup {[kind |-> "file",
                                      path |-> ManifestFile(build.manifest),
                                      contents |-> ManifestFileContents(build.manifest)]}
               ELSE disk
  /\ UNCHANGED <<pluginVars, ctx, files, sha, published, transformed, assetVars, devVars>>

\* await fse.writeFile(file, contents)
BuildWriteFile ==
  /\ build.pc = "writeFile"
  /\ \E ok \in BOOLEAN :
       IF ok
       THEN /\ build' = [build EXCEPT !.pc = "written"]
            /\ disk' = disk \cup {[kind |-> "file",
                                   path |-> ManifestFile(build.manifest),
                                   contents |-> ManifestFileContents(build.manifest)]}
       ELSE build' = Failed("EIO") /\ disk' = disk
  /\ UNCHANGED <<pluginVars, ctx, files, sha, published, transformed, assetVars, devVars>>

\* return manifest
BuildReturn ==
  /\ build.pc = "written"
  /\ build' = [build EXCEPT !.pc = "returned"]
  /\ published' = Append(published, build.manifest)
  /\ UNCHANGED <<pluginVars, ctx, files, disk, sha, transformed, assetVars, devVars>>

(***************************************************************************)
(* remix-route-exports transform                                           *)
(***************************************************************************)
RECURSIVE Filter(_, _)
Filter(seq, S) ==
  IF seq = <<>> THEN <<>>
  ELSE IF Head(seq) \in S THEN <<Head(seq)>> \o Filter(Tail(seq), S)
  ELSE Filter(Tail(seq), S)

\* removeExports(code, names), on the export list of the code
removeExports(code, names) == Filter(code, Range(code) \ Range(names))

\* a HydrateFallback check made on every route, the root included
IsNotRootAlways(route) == TRUE

\* route.id !== "root"
IsNotRoot(route) == route.id # "root"

\* the checks of SPA mode are made when unstable_ssr is false
SpaChecksApply(c) == ~c.remixConfig.unstable_ssr

\* a lexer that finds no server-only export
NoServerOnlyExports(code) == <<>>

\* esModuleLexer(code)[1].map(n).filter(SERVER_ONLY_ROUTE_EXPORTS.includes)
ServerOnlyExportsOf(code) == Filter(code, Range(SERVER_ONLY_ROUTE_EXPORTS))

\* transform(code, id, options): "undefined" when the module is left alone,
\* the error thrown, or the code returned
RouteExportsTransform(c, code, id, ssrOption) ==
  IF ssrOption THEN [result |-> "undefined"]
  ELSE LET route == getRoute(c.remixConfig, id)
       IN IF route = NoRoute THEN [result |-> "undefined"]
          ELSE IF SpaChecksApply(c) /\ ServerOnlyExportsOf(code) # <<>>
          THEN [result |-> "error", message |-> "SPA Mode: invalid route export(s)",
                file |-> route.file, names |-> ServerOnlyExportsOf(code)]
          ELSE IF SpaChecksApply(c) /\ IsNotRoot(route)
                  /\ Includes(code, "HydrateFallback")
          THEN [result |-> "error",
                message |-> "SPA Mode: Invalid HydrateFallback export",
                file |-> route.file, names |-> <<"HydrateFallback">>]
          ELSE [result |-> "code",
                code |-> removeExports(code, SERVER_ONLY_ROUTE_EXPORTS)]

\* The modules the client build and the server build transform
ModuleIds == {Join(appDirectory, RootFile), Join(appDirectory, AboutFile),
              Join(appDirectory, <<"utils.ts">>)}

CodeOf(id) ==
  LET rel == Relative(appDirectory, id)
  IN IF rel \in DOMAIN files /\ files[rel].err = "none"
     THEN files[rel].exportNames ELSE <<"default">>

\* The bundler transforms a module of the client or of the server graph
TransformModule ==
  /\ build.pc = "idle"
  /\ transformed.result = "none"
  /\ \E id \in ModuleIds, ssrOption \in BOOLEAN :
       transformed' = [hook |-> "remix-route-exports", id |-> id, ssr |-> ssrOption]
                        @@ RouteExportsTransform(ctx, CodeOf(id), id, ssrOption)
  /\ UNCHANGED <<pluginVars, ctx, files, build, disk, sha, published, assetVars, devVars>>

(***************************************************************************)
(* remix-dot-server resolveId                                              *)
(*                                                                         *)
(* A module id is a sequence of tokens in which a name is cut at its dots: *)
(* "cms.server.ts" is "cms", ".server", ".ts".                              *)
(***************************************************************************)
\* \.[cm]?[jt]sx?
JsExtensions ==
  {".js", ".jsx", ".ts", ".tsx", ".cjs", ".cjsx", ".cts", ".ctsx",
   ".mjs", ".mjsx", ".mts", ".mtsx"}

\* /\.server(\.[cm]?[jt]sx?)?$/ and /\.client(\.[cm]?[jt]sx?)?$/
MatchesFileRE(id, marker) ==
  /\ Len(id) >= 1
  /\ \/ id[Len(id)] = marker
     \/ Len(id) >= 2 /\ id[Len(id)] \in JsExtensions /\ id[Len(id) - 1] = marker

\* /\/\.server\// and /\/\.client\//
MatchesDirRE(id, marker) ==
  \E i \in 1..(Len(id) - 2) : id[i] = "/" /\ id[i + 1] = marker /\ id[i + 2] = "/"

\* this.resolve(id, importer, options) found no module
NotResolved == [id |-> <<>>, found |-> FALSE]

Resolved(id) == [id |-> id, found |-> TRUE]

\* an importer that is undefined (or the empty string)
NoImporter == <<>>

\* a test of the resolved id against the file pattern alone
isDotServerFileOnly(resolvedId) == MatchesFileRE(resolvedId, ".server")

\* serverFileRE.test(resolved.id) || serverDirRE.test(resolved.id)
isDotServer(resolvedId) ==
  MatchesFileRE(resolvedId, ".server") \/ MatchesDirRE(resolvedId, ".server")

\* resolveId(id, importer, options): "undefined" when the hook returns
\* nothing, or the error it throws
DotServerResolveId(c, command, id, importer, ssrOption, isResolving, resolved) ==
  IF ssrOption THEN [result |-> "undefined"]
  ELSE IF isResolving THEN [result |-> "undefined"]
  ELSE IF ~resolved.found THEN [result |-> "undefined"]
  ELSE IF ~isDotServer(resolved.id) THEN [result |-> "undefined"]
  ELSE IF importer = NoImporter THEN [result |-> "undefined"]
  ELSE IF command # "build" /\ EndsWith(importer, <<".html">>)
  THEN [result |-> "undefined"]
  ELSE [result |-> "error",
        message |-> "Server-only module referenced by client",
        names |-> id,
        importerShort |-> Relative(c.rootDirectory, importer),
        routeWording |-> getRoute(c.remixConfig, importer) # NoRoute]

\* The imports the bundler resolves: the id as it is written, and the module
\* it resolves to
Imports ==
  { [id |-> <<"~", "/", "cms", ".server">>,
     resolved |-> Resolved(Join(appDirectory, <<"cms", ".server", ".ts">>))],
    [id |-> <<".", "/", ".server", "/", "db">>,
     resolved |-> Resolved(Join(appDirectory, <<".server", "/", "db", ".ts">>))],
    [id |-> <<".", "/", "utils">>,
     resolved |-> Resolved(Join(appDirectory, <<"utils.ts">>))],
    [id |-> <<".", "/", "cms", ".serverless">>,
     resolved |-> Resolved(Join(appDirectory, <<"cms", ".serverless", ".ts">>))],
    [id |-> <<".", "/", "gone", ".server">>, resolved |-> NotResolved] }

IndexHtml == Join(rootDirectory, <<"index", ".html">>)

Importers ==
  {Join(appDirectory, RootFile), Join(appDirectory, AboutFile),
   Join(appDirectory, <<"utils.ts">>), IndexHtml, NoImporter}

\* The bundler resolves an import, for the client or for the server; the
\* call the hook makes itself carries the mark of the hook.
ResolveId ==
  /\ build.pc = "idle"
  /\ transformed.result = "none"
  /\ \E import \in Imports, importer \in Importers, ssrOption \in BOOLEAN,
        isResolving \in BOOLEAN :
       transformed' =
         [hook |-> "remix-dot-server", id |-> import.id, importer |-> importer,
          ssr |-> ssrOption, viteCommand |-> viteCommand, isResolving |-> isResolving,
          resolved |-> import.resolved]
           @@ DotServerResolveId(ctx, viteCommand, import.id, importer, ssrOption,
                                 isResolving, import.resolved)
  /\ UNCHANGED <<pluginVars, ctx, files, build, disk, sha, published, assetVars, devVars>>

(***************************************************************************)
(* remix-dot-client transform                                              *)
(***************************************************************************)
\* clientFileRE.test(id) || clientDirRE.test(id)
isDotClient(id) == MatchesFileRE(id, ".client") \/ MatchesDirRE(id, ".client")

\* a statement "export const <name> = undefined;" for every name
InertExportAlwaysConst(name) == [kind |-> "const", name |-> name, value |-> "undefined"]

\* "export default undefined;" or "export const <name> = undefined;"
InertExport(name) ==
  IF name = "default" THEN [kind |-> "default", name |-> "default", value |-> "undefined"]
  ELSE [kind |-> "const", name |-> name, value |-> "undefined"]

\* transform(code, id, options) of remix-dot-client; the code is the list of
\* the export names esModuleLexer finds in it
DotClientTransform(code, id, ssrOption) ==
  IF ~ssrOption THEN [result |-> "undefined"]
  ELSE IF isDotClient(id)
  THEN [result |-> "code", statements |-> [i \in 1..Len(code) |-> InertExport(code[i])]]
  ELSE [result |-> "undefined"]

ClientModuleIds ==
  { Join(appDirectory, <<"chart", ".client", ".tsx">>),
    Join(appDirectory, <<".client", "/", "widget", ".ts">>),
    Join(appDirectory, <<"chart", ".clientele", ".ts">>),
    Join(appDirectory, <<"utils.ts">>) }

ClientModuleCodes ==
  { <<>>, <<"default">>, <<"Chart", "default">>, <<"default", "draw", "erase">> }

\* The bundler transforms a module that is no route
TransformDotClient ==
  /\ build.pc = "idle"
  /\ transformed.result = "none"
  /\ \E id \in ClientModuleIds, code \in ClientModuleCodes, ssrOption \in BOOLEAN :
       transformed' = [hook |-> "remix-dot-client", id |-> id, ssr |-> ssrOption,
                       input |-> code]
                        @@ DotClientTransform(code, id, ssrOption)
  /\ UNCHANGED <<pluginVars, ctx, files, build, disk, sha, published, assetVars, devVars>>

(***************************************************************************)
(* remix transform: the ?client-route variant of a route module            *)
(***************************************************************************)
\* an allowlist that lets the loader through
CLIENT_ROUTE_EXPORTS_AND_LOADER ==
  <<"clientAction", "clientLoader", "default", "ErrorBoundary", "handle",
    "HydrateFallback", "links", "meta", "shouldRevalidate", "loader">>

CLIENT_ROUTE_EXPORTS ==
  <<"clientAction", "clientLoader", "default", "ErrorBoundary", "handle",
    "HydrateFallback", "links", "meta", "shouldRevalidate">>

\* String.prototype.replace(pattern, ""): the first occurrence is removed
ReplaceFirst(str, pattern) ==
  LET at == {i \in 1..(Len(str) - Len(pattern) + 1) :
               SubSeq(str, i, i + Len(pattern) - 1) = pattern}
  IN IF at = {} THEN str
     ELSE LET i == CHOOSE x \in at : \A y \in at : x <= y
          IN SubSeq(str, 1, i - 1) \o SubSeq(str, i + Len(pattern), Len(str))

\* path.basename
Basename(p) ==
  LET slashes == {i \in 1..Len(p) : p[i] = "/"}
  IN IF slashes = {} THEN p
     ELSE SubSeq(p, (CHOOSE x \in slashes : \A y \in slashes : y <= x) + 1, Len(p))

\* sourceExports.filter((exportName) => CLIENT_ROUTE_EXPORTS.includes(exportName))
RECURSIVE FilterIncluded(_, _)
FilterIncluded(sourceExports, allowed) ==
  IF sourceExports = <<>> THEN <<>>
  ELSE IF Includes(allowed, Head(sourceExports))
  THEN <<Head(sourceExports)>> \o FilterIncluded(Tail(sourceExports), allowed)
  ELSE FilterIncluded(Tail(sourceExports), allowed)

\* path.resolve(ctx.remixConfig.appDirectory, routeFile), as the key of the
\* file among the files of the app
RouteFileKey(c, routeFile) ==
  IF StartsWith(routeFile, <<"/">>) THEN Relative(c.remixConfig.appDirectory, routeFile)
  ELSE routeFile

\* transform(code, id) of the remix plugin
ClientRouteTransform(c, fs, id) ==
  IF EndsWith(id, CLIENT_ROUTE_QUERY_STRING)
  THEN LET routeModuleId == ReplaceFirst(id, CLIENT_ROUTE_QUERY_STRING)
           sourceExports == getRouteModuleExports(fs, RouteFileKey(c, routeModuleId))
       IN IF sourceExports.err # "none"
          THEN [result |-> "error", message |-> sourceExports.err,
                classified |-> routeModuleId]
          ELSE [result |-> "code", classified |-> routeModuleId,
                clientExports |-> FilterIncluded(sourceExports.exportNames,
                                                 CLIENT_ROUTE_EXPORTS),
                from |-> <<".", "/">> \o Basename(routeModuleId)]
  ELSE [result |-> "undefined"]

RouteModuleIds == {Join(appDirectory, RootFile), Join(appDirectory, AboutFile)}

\* The bundler transforms a route module, or its ?client-route variant
TransformClientRoute ==
  /\ build.pc = "idle"
  /\ transformed.result = "none"
  /\ \E file \in RouteModuleIds, query \in {<<>>, CLIENT_ROUTE_QUERY_STRING} :
       transformed' = [hook |-> "remix", id |-> file \o query]
                        @@ ClientRouteTransform(ctx, files, file \o query)
  /\ UNCHANGED <<pluginVars, ctx, files, build, disk, sha, published, assetVars, devVars>>

(***************************************************************************)
(* The dev server: the watcher handler, the virtual modules, the manifest  *)
(* of development and the hot-update hook                                  *)
(***************************************************************************)
\* Number of filesystem events of one behaviour
MaxEvents == 2

viteConfigFile == Join(rootDirectory, <<"vite.config.ts">>)

\* VirtualModule.id(name)
VirtualModuleId(name) == <<"virtual:remix/", name>>

\* VirtualModule.resolve(id)
VirtualModuleResolve(id) == <<"\\0">> \o id

serverBuildId == VirtualModuleId("server-build")
serverManifestId == VirtualModuleId("server-manifest")
browserManifestId == VirtualModuleId("browser-manifest")
hmrRuntimeId == VirtualModuleId("hmr-runtime")
injectHmrRuntimeId == VirtualModuleId("inject-hmr-runtime")

\* let vmods = [serverBuildId, serverManifestId, browserManifestId]
VirtualModules == {serverBuildId, serverManifestId, browserManifestId}

\* an invalidation of the server manifest alone
invalidateServerManifestOnly(graph) ==
  [v \in DOMAIN graph |->
     IF graph[v].state # "absent" /\ v = serverManifestId
     THEN [state |-> "invalid", routes |-> graph[v].routes]
     ELSE graph[v]]

\* invalidateVirtualModules: a module that is in the graph is invalidated
invalidateVirtualModules(graph) ==
  [v \in DOMAIN graph |->
     IF graph[v].state # "absent" THEN [state |-> "invalid", routes |-> graph[v].routes]
     ELSE graph[v]]

\* JSON.stringify of a resolved config: serverBundles, a function or
\* undefined, is left out, and so is a parentId that is undefined.
JsonConfig(remixConfig) ==
  [appDirectory |-> remixConfig.appDirectory,
   publicPath |-> remixConfig.publicPath,
   routes |-> [i \in 1..Len(remixConfig.routes) |-> JsonRoute(remixConfig.routes[i])],
   unstable_ssr |-> remixConfig.unstable_ssr]

\* a comparison of the two values themselves, functions by identity
isEqualDeep(v1, v2) == v1 = v2

isEqualJson(v1, v2) == JsonConfig(v1) = JsonConfig(v2)

\* normalizePath(filepath).startsWith(normalizePath(ctx.remixConfig.appDirectory))
IsAppFile(path, dir) == StartsWith(path, dir)

\* The context updateRemixPluginContext computes from the files and the
\* adapter as they are now: a route for every route file there is.
ResolvedContext ==
  Context(RemixConfig(RoutesOf(AboutFile \in DOMAIN files), ctx.remixConfig.unstable_ssr,
                      serverBundlesNow),
          entryClientFilePath, ctx.isSsrBuild)

AboutPath == Join(appDirectory, AboutFile)
UtilsPath == Join(appDirectory, <<"utils.ts">>)
SiblingPath == appDirectory \o <<"-old", "/", "utils.ts">>

AboutDevSources ==
  { Source(<<"loader", "default">>), Broken("CompileError") }

\* The events of the watcher and what they do to the files and the adapter
FsEffect(name, path) ==
  IF path = AboutPath /\ name = "add"
  THEN /\ AboutFile \notin DOMAIN files
       /\ \E src \in AboutDevSources :
            files' = [f \in DOMAIN files \cup {AboutFile} |->
                        IF f = AboutFile THEN src ELSE files[f]]
       /\ UNCHANGED serverBundlesNow
  ELSE IF path = AboutPath /\ name = "unlink"
  THEN /\ AboutFile \in DOMAIN files
       /\ files' = [f \in DOMAIN files \ {AboutFile} |-> files[f]]
       /\ UNCHANGED serverBundlesNow
  ELSE IF path = AboutPath /\ name = "change"
  THEN /\ AboutFile \in DOMAIN files
       /\ \E src \in AboutDevSources \ {files[AboutFile]} :
            files' = [files EXCEPT ![AboutFile] = src]
       /\ UNCHANGED serverBundlesNow
  ELSE IF path = viteConfigFile
  THEN /\ name = "change"
       /\ serverBundlesNow' = IF serverBundlesNow = "fnA" THEN "fnB" ELSE "fnA"
       /\ UNCHANGED files
  ELSE /\ name = "add"
       /\ UNCHANGED <<files, serverBundlesNow>>

WatchedPaths == {AboutPath, UtilsPath, SiblingPath, viteConfigFile}

\* The calls in flight are a bag: the order they were made in is of no effect
One(call) == SetToBag({call})

\* The watcher emits an event: the handler runs up to its await, or returns
\* at once, and the server will call handleHotUpdate for the file.
FsEvent ==
  /\ events < MaxEvents
  /\ events' = events + 1
  /\ \E name \in {"add", "unlink", "change"}, path \in WatchedPaths :
       /\ FsEffect(name, path)
       /\ LET appFileAddedOrRemoved ==
                name \in {"add", "unlink"} /\ IsAppFile(path, ctx.remixConfig.appDirectory)
              viteConfigChanged == name = "change" /\ path = viteConfigFile
          IN IF appFileAddedOrRemoved \/ viteConfigChanged
             THEN /\ watchers' = watchers (+)
                        One([pc |-> "resolving", name |-> name, path |-> path,
                             lastRemixConfig |-> ctx.remixConfig])
                  /\ UNCHANGED lastWatch
             ELSE UNCHANGED <<watchers, lastWatch>>
       /\ hmrs' = hmrs (+) One([pc |-> "pending", file |-> path])
  /\ UNCHANGED <<pluginVars, ctx, lastHmr, vmods, synth, assetVars, build, disk, sha, published,
                 transformed>>

\* updateRemixPluginContext: resolveRemixEsbuildConfig reads the files
WatcherResolve(w) ==
  /\ w.pc = "resolving"
  /\ watchers' = (watchers (-) One(w)) (+)
       One([pc |-> "resolved", name |-> w.name, path |-> w.path,
            lastRemixConfig |-> w.lastRemixConfig, resolved |-> ResolvedContext])
  /\ UNCHANGED <<pluginVars, serverBundlesNow, events, lastWatch, hmrs, lastHmr, vmods, synth,
                 assetVars, buildVars>>

\* updateRemixPluginContext ends with ctx = {...} and the handler goes on
\* after its await, in the same turn of the microtask queue: the comparison
\* and the invalidation.
WatcherInstall(w) ==
  /\ w.pc = "resolved"
  /\ ctx' = w.resolved
  /\ LET differs == ~isEqualJson(w.lastRemixConfig, ctx'.remixConfig)
     IN /\ vmods' = IF differs THEN invalidateVirtualModules(vmods) ELSE vmods
        /\ lastWatch' = [recomputed |-> TRUE, invalidated |-> differs,
                         lastRemixConfig |-> w.lastRemixConfig,
                         replaced |-> ctx.remixConfig,
                         installed |-> ctx'.remixConfig]
  /\ watchers' = watchers (-) One(w)
  /\ UNCHANGED <<pluginVars, serverBundlesNow, events, hmrs, lastHmr, synth, assetVars,
                 files, build, disk, sha, published, transformed>>

(***************************************************************************)
(* getBrowserManifestForDev and the loading of the virtual modules         *)
(***************************************************************************)
resolveFileUrl(c, file) == <<"/">> \o Relative(c.rootDirectory, file)

\* The loop over the routes of the context as it is when the classification
\* has settled; routeManifestExports holds the routes of the context the
\* classification was started with.
AssembleRoutesForDev(c, routeManifestExports) ==
  LET routes == c.remixConfig.routes
  IN IF \E i \in 1..Len(routes) : routes[i].id \notin DOMAIN routeManifestExports
     THEN [err |-> "TypeError"]
     ELSE [err |-> "none",
           routes |-> [i \in 1..Len(routes) |->
                         RouteFlags(routes[i], routeManifestExports[routes[i].id])
                           @@ [module |-> resolveFileUrl(c, Join(c.remixConfig.appDirectory,
                                                                  routes[i].file))
                                            \o CLIENT_ROUTE_QUERY_STRING,
                               imports |-> <<>>]]]

\* load of a manifest module: getBrowserManifestForDev starts the
\* classification of the routes of the context and awaits it
SynthStart(v) ==
  /\ v \in {serverManifestId, browserManifestId}
  /\ vmods[v].state # "cached"
  /\ synth.pc # "classifying"
  /\ synth' = [pc |-> "classifying", vmod |-> v, started |-> ctx.remixConfig.routes]
  /\ UNCHANGED <<pluginVars, serverBundlesNow, events, watchers, lastWatch, hmrs, lastHmr, vmods,
                 assetVars, buildVars>>

\* a call of handleHotUpdate that throws sends no event
Threw(h) == [pc |-> "threw", file |-> h.file, sent |-> 0]

\* The text load wraps the manifest in: the server manifest is the default
\* export of its module, the browser manifest is assigned to a global
ManifestModule(v) ==
  IF v = browserManifestId THEN "window.__remixManifest=" ELSE "export default "

\* Math.random(), the values it may return, in hundredths
MathRandom == {25, 75}

\* String(n) of a number below one
StringOfNumber(hundredths) == <<"0", ".", ToString(hundredths)>>

\* a version computed from the routes
DevVersionOfContent(random, routes) == <<"0", ".", ToString(Len(routes))>>

\* version: String(Math.random())
DevVersion(random, routes) == StringOfNumber(random)

\* The classification has settled and the manifest is assembled; when it
\* fails, so do the hot updates that await the server manifest.
SynthFinish ==
  /\ synth.pc = "classifying"
  /\ LET classified == getRouteManifestModuleExports(files, synth.started)
         assembled == AssembleRoutesForDev(ctx, classified.exports)
         err == IF classified.err # "none" THEN classified.err ELSE assembled.err
         failing == {h \in BagToSet(hmrs) : h.pc = "loading"}
     IN /\ IF err = "none"
           THEN \E random \in MathRandom :
                  /\ synth' = [pc |-> "done", vmod |-> synth.vmod, started |-> synth.started,
                               finished |-> ctx.remixConfig.routes, err |-> err,
                               routes |-> assembled.routes,
                               classified |-> classified.exports]
                  /\ vmods' = [vmods EXCEPT ![synth.vmod] =
                                 [state |-> "cached", code |-> ManifestModule(synth.vmod),
                                  entry |-> [module |-> resolveFileUrl(ctx,
                                                          ctx.entryClientFilePath),
                                             imports |-> <<>>],
                                  routes |-> assembled.routes,
                                  version |-> DevVersion(random, assembled.routes)]]
           ELSE /\ synth' = [pc |-> "done", vmod |-> synth.vmod, started |-> synth.started,
                             finished |-> ctx.remixConfig.routes, err |-> err,
                             routes |-> <<>>]
                /\ vmods' = vmods
        /\ IF err # "none" /\ synth.vmod = serverManifestId /\ failing # {}
           THEN /\ hmrs' = [h \in BagToSet(hmrs) \ failing |-> hmrs[h]]
                /\ lastHmr' = Threw(CHOOSE h \in failing : TRUE)
           ELSE UNCHANGED <<hmrs, lastHmr>>
  /\ UNCHANGED <<pluginVars, serverBundlesNow, events, watchers, lastWatch, assetVars, buildVars>>

(***************************************************************************)
(* remix-hmr-updates: handleHotUpdate                                      *)
(***************************************************************************)
\* data.route of an event for a file that is no route
NullRoute == [id |-> "null"]

\* getRouteMetadata, or the error of the classification
getRouteMetadata(c, fs, route) ==
  LET sourceExports == getRouteModuleExports(fs, route.file)
  IN IF sourceExports.err # "none" THEN [err |-> sourceExports.err]
     ELSE [err |-> "none", sourceExports |-> sourceExports.exportNames,
           info |-> RouteFlags(route, sourceExports.exportNames)
                      @@ [url |-> <<"/">> \o Relative(c.rootDirectory,
                                     Join(c.remixConfig.appDirectory, route.file)),
                          module |-> resolveFileUrl(c, Join(c.remixConfig.appDirectory,
                                                             route.file)) \o <<"?import">>,
                          imports |-> <<>>]]

FlagKeys == {"hasLoader", "hasClientLoader", "hasAction", "hasClientAction",
             "hasErrorBoundary"}

\* server.ws.send({type: "custom", event: "remix:hmr", data})
HmrEvent(route) == [type |-> "custom", event |-> "remix:hmr", data |-> [route |-> route]]

\* modules, the list of the modules the change of the file affects
AffectedModules(file) == << file >>

\* The hook is called: getRoute, and for a file that is no route the event
HmrStart(h) ==
  /\ h.pc = "pending"
  /\ LET route == getRoute(ctx.remixConfig, h.file)
     IN IF route = NoRoute
        THEN /\ lastHmr' = [pc |-> "done", file |-> h.file, route |-> NoRoute,
                            sent |-> 1, event |-> HmrEvent(NullRoute),
                            invalidated |-> FALSE,
                            returned |-> AffectedModules(h.file)]
             /\ hmrs' = hmrs (-) One(h)
        ELSE /\ hmrs' = (hmrs (-) One(h)) (+)
                           One([pc |-> "loading", file |-> h.file, route |-> route])
             /\ UNCHANGED lastHmr
  /\ UNCHANGED <<pluginVars, serverBundlesNow, events, watchers, lastWatch, vmods, synth, assetVars,
                 buildVars>>

\* await server.ssrLoadModule(serverManifestId) has the module
HmrLoaded(h) ==
  /\ h.pc = "loading"
  /\ vmods[serverManifestId].state = "cached"
  /\ LET routes == vmods[serverManifestId].routes
         at == {j \in 1..Len(routes) : routes[j].id = h.route.id}
     IN hmrs' = (hmrs (-) One(h)) (+)
          One([pc |-> "classifying", file |-> h.file, route |-> h.route,
               oldRouteMetadata |-> IF at = {} THEN NullRoute
                                    ELSE routes[CHOOSE j \in at : TRUE]])
  /\ UNCHANGED <<pluginVars, serverBundlesNow, events, watchers, lastWatch, lastHmr, vmods, synth,
                 assetVars, buildVars>>

\* await getRouteMetadata(...) has settled: the comparison, the
\* invalidation and the event
HmrSend(h) ==
  /\ h.pc = "classifying"
  /\ LET new == getRouteMetadata(ctx, files, h.route)
         old == h.oldRouteMetadata
     IN IF new.err # "none"
        THEN /\ lastHmr' = Threw(h)
             /\ vmods' = vmods
        ELSE LET changed == old = NullRoute
                              \/ \E key \in FlagKeys : old[key] # new.info[key]
             IN /\ vmods' = IF changed THEN invalidateVirtualModules(vmods) ELSE vmods
                /\ lastHmr' = [pc |-> "done", file |-> h.file, route |-> h.route,
                               sent |-> 1, event |-> HmrEvent(new.info),
                               sourceExports |-> new.sourceExports,
                               oldRouteMetadata |-> old,
                               invalidated |-> changed,
                               returned |-> AffectedModules(h.file)]
  /\ hmrs' = hmrs (-) One(h)
  /\ UNCHANGED <<pluginVars, serverBundlesNow, events, watchers, lastWatch, synth, assetVars,
                 buildVars>>

DevInit ==
  /\ files \in { [f \in {RootFile} |-> Source(<<"default">>)],
                 [f \in {RootFile, AboutFile} |-> Source(<<"default">>)] }
  /\ serverBundlesNow = "fnA"
  /\ ctx = Context(RemixConfig(RoutesOf(AboutFile \in DOMAIN files), TRUE, "fnA"),
                   entryClientFilePath, FALSE)
  /\ PluginStarted("serve")
  /\ events = 0
  /\ watchers = EmptyBag
  /\ lastWatch = [recomputed |-> FALSE, invalidated |-> FALSE]
  /\ hmrs = EmptyBag
  /\ lastHmr = [pc |-> "none", sent |-> 0]
  /\ vmods = [v \in VirtualModules |-> [state |-> "absent"]]
  /\ synth = [pc |-> "idle"]
  /\ viteManifest = <<>>
  /\ seeds = <<>>
  /\ walked = [done |-> FALSE, err |-> "none", chunks |-> <<>>]
  /\ build = Idle
  /\ disk = {}
  /\ sha = <<>>
  /\ published = <<>>
  /\ transformed = [result |-> "none"]

DevNext ==
  \/ FsEvent
  \/ \E w \in BagToSet(watchers) : WatcherResolve(w) \/ WatcherInstall(w)
  \/ SynthStart(serverManifestId)
  \/ SynthFinish
  \/ \E h \in BagToSet(hmrs) : HmrStart(h) \/ HmrLoaded(h) \/ HmrSend(h)

(***************************************************************************)
(* The manifests of the asset specification: every chunk imports up to     *)
(* MaxImports other chunks, no key twice (a bundler lists an imported      *)
(* chunk once and no chunk imports itself); cycles between chunks occur.   *)
(***************************************************************************)
ChunkKeys == { <<"entry.js">>, <<"root.js">>, <<"about.js">>, <<"shared.js">> }

NoDupSeqs(S, n) ==
  UNION { {s \in [1..len -> S] : \A i, j \in 1..len : i # j => s[i] # s[j]} :
          len \in 0..n }

File(k) == <<"assets", "/">> \o k

Css(k) == IF k = <<"shared.js">> THEN << <<"assets", "/", "shared.css">> >> ELSE <<>>

ChunkOf(k, imports) == [file |-> File(k), imports |-> imports, css |-> Css(k)]

AssetManifests ==
  { [k \in ChunkKeys |-> ChunkOf(k, imps[k])] :
      imps \in { f \in [ChunkKeys -> NoDupSeqs(ChunkKeys, MaxImports)] :
                   \A k \in ChunkKeys : k \notin Range(f[k]) } }

\* No dev server: a build, or a call of a function of the plugin
DevIdle ==
  /\ serverBundlesNow = "undefined"
  /\ events = 0
  /\ watchers = EmptyBag
  /\ lastWatch = [recomputed |-> FALSE, invalidated |-> FALSE]
  /\ hmrs = EmptyBag
  /\ lastHmr = [pc |-> "none", sent |-> 0]
  /\ vmods = [v \in VirtualModules |-> [state |-> "absent"]]
  /\ synth = [pc |-> "idle"]

(***************************************************************************)
(* The inputs of the build specification                                   *)
(***************************************************************************)
KEntry == Relative(rootDirectory, entryClientFilePath)
KRootQ == Relative(rootDirectory, Join(appDirectory, RootFile)) \o CLIENT_ROUTE_QUERY_STRING
KAboutQ == Relative(rootDirectory, Join(appDirectory, AboutFile)) \o CLIENT_ROUTE_QUERY_STRING
KShared == <<"_shared.js">>

\* A manifest of the client build: the about chunk is there or (a manifest
\* of a build made before the route existed) not, its output file has one of
\* two hashed names, and it and the shared chunk import each other or not.
BuildManifest(hasAbout, aboutFile, aboutImports, sharedImports) ==
  [k \in {KEntry, KRootQ, KShared} \cup (IF hasAbout THEN {KAboutQ} ELSE {}) |->
     IF k = KEntry
     THEN [file |-> <<"assets", "/", "entry.js">>, imports |-> <<KShared>>,
           css |-> << <<"assets", "/", "entry.css">> >>]
     ELSE IF k = KRootQ
     THEN [file |-> <<"assets", "/", "root.js">>, imports |-> <<>>, css |-> <<>>]
     ELSE IF k = KAboutQ
     THEN [file |-> aboutFile, imports |-> aboutImports, css |-> <<>>]
     ELSE [file |-> <<"assets", "/", "shared.js">>, imports |-> sharedImports,
           css |-> << <<"assets", "/", "shared.css">> >>]]

AboutOutputs == { <<"assets", "/", "about-1.js">>, <<"assets", "/", "about-2.js">> }

BuildManifests ==
  { BuildManifest(TRUE, f, ai, si) :
      f \in AboutOutputs, ai \in {<<>>, <<KShared>>}, si \in {<<>>, <<KAboutQ>>} }
  \cup { BuildManifest(FALSE, <<>>, <<>>, <<>>) }

RootSources ==
  { Source(<<"default">>), Source(<<"default", "HydrateFallback">>),
    Source(<<"loader", "default">>) }

AboutSources ==
  { Source(<<"default">>), Source(<<"loader", "default">>),
    Source(<<"default", "HydrateFallback">>),
    Source(<<"action", "clientLoader", "default", "ErrorBoundary">>),
    Source(<<"helper", "meta", "headers", "default", "links">>) }
  \cup { Broken(e) : e \in {"CompileError", "Unresolvable"} }

\* Number of syntheses of one behaviour
MaxBuilds == 2

BuildInputs(isSsrBuild) ==
  /\ viteManifest \in BuildManifests
  /\ \E ssr \in BOOLEAN :
       ctx = Context(RemixConfig(RoutesOf(TRUE), ssr, "undefined"), entryClientFilePath,
                     isSsrBuild)
  /\ \E r \in RootSources, a \in AboutSources :
       files = [f \in {RootFile, AboutFile} |-> IF f = RootFile THEN r ELSE a]
  /\ build = Idle
  /\ disk = {}
  /\ sha = <<>>
  /\ published = <<>>
  /\ transformed = [result |-> "none"]
  /\ seeds = <<>>
  /\ walked = [done |-> FALSE, err |-> "none", chunks |-> <<>>]
  /\ DevIdle

\* The SSR build: the server manifest module is loaded and the production
\* synthesis runs
BuildInit == BuildInputs(TRUE) /\ PluginStarted("build")

\* The client build is run again and the manifest is synthesized once more
Rebuild ==
  /\ build.pc \in {"returned", "failed"}
  /\ build.n + 1 < MaxBuilds
  /\ viteManifest' \in BuildManifests
  /\ build' = [pc |-> "idle", n |-> build.n + 1]
  /\ UNCHANGED <<pluginVars, seeds, walked, ctx, files, disk, sha, published, transformed, devVars>>

BuildNext ==
  \/ TransformModule
  \/ BuildStart
  \/ BuildAssemble
  \/ BuildEnsureDir
  \/ BuildWriteFile
  \/ BuildReturn

(***************************************************************************)
(* The inputs of the path specification: manifests keyed by the paths of   *)
(* the source files, a route with its ?client-route key, its bare key,     *)
(* both or neither; the chunks of the entry and of the routes import the   *)
(* shared chunk and list its stylesheet.                                   *)
(***************************************************************************)
KRoot == Relative(rootDirectory, Join(appDirectory, RootFile))

PathChunk(k, imports) ==
  IF k = KEntry
  THEN [file |-> <<"assets", "/", "entry.js">>, imports |-> imports,
        css |-> << <<"assets", "/", "entry.css">> >>]
  ELSE IF k = KRootQ
  THEN [file |-> <<"assets", "/", "root.js">>, imports |-> imports,
        css |-> << <<"assets", "/", "shared.css">>, <<"assets", "/", "root.css">> >>]
  ELSE IF k = KRoot
  THEN [file |-> <<"assets", "/", "root-bare.js">>, imports |-> imports, css |-> <<>>]
  ELSE IF k = KAboutQ
  THEN [file |-> <<"assets", "/", "about.js">>, imports |-> imports, css |-> <<>>]
  ELSE [file |-> <<"assets", "/", "shared.js">>, imports |-> imports,
        css |-> << <<"assets", "/", "shared.css">> >>]

PathImports(k) ==
  IF k = KShared THEN {<<>>, <<KAboutQ>>}
  ELSE IF k = KAboutQ THEN {<<>>, <<KShared>>}
  ELSE {<<>>, <<KShared>>, <<KShared, KAboutQ>>}

PathManifests ==
  UNION { { [k \in keys \cup {KShared, KAboutQ} |-> PathChunk(k, imps[k])] :
              imps \in { f \in [keys \cup {KShared, KAboutQ} ->
                                  {<<>>, <<KShared>>, <<KAboutQ>>, <<KShared, KAboutQ>>}] :
                           \A k \in DOMAIN f : f[k] \in PathImports(k) } } :
          keys \in SUBSET {KEntry, KRootQ, KRoot} }

PathInit ==
  /\ viteManifest \in PathManifests
  /\ \E entryFilePath \in {Join(appDirectory, RootFile), Join(appDirectory, AboutFile)},
        prependedAssetFilePaths \in {<<>>, <<entryClientFilePath>>} :
       seeds = <<entryFilePath>> \o prependedAssetFilePaths
  /\ walked = [done |-> FALSE, err |-> "none", chunks |-> <<>>]
  /\ ctx = Context(RemixConfig(RoutesOf(TRUE), TRUE, "undefined"), entryClientFilePath,
                   FALSE)
  /\ PluginStarted("build")
  /\ files = <<>>
  /\ build = Idle
  /\ disk = {}
  /\ sha = <<>>
  /\ published = <<>>
  /\ transformed = [result |-> "none"]
  /\ DevIdle

\* resolveBuildAssetPaths(ctx, viteManifest, entryFilePath, prependedAssetFilePaths)
ResolveBuildAssetPaths ==
  /\ ~walked.done
  /\ walked' = [done |-> TRUE,
                entryChunk |-> resolveChunk(ctx, viteManifest, Head(seeds)),
                paths |-> resolveBuildAssetPaths(ctx, viteManifest, Head(seeds),
                                                 Tail(seeds))]
  /\ UNCHANGED <<pluginVars, viteManifest, seeds, buildVars, devVars>>

PathNext == ResolveBuildAssetPaths

\* The hooks of the plugins on the modules of one application
HooksInit ==
  /\ BuildInputs(FALSE)
  /\ viteManifest = BuildManifest(FALSE, <<>>, <<>>, <<>>)
  /\ \E command \in {"build", "serve"} : PluginStarted(command)

HooksNext ==
  \/ ResolveId
  \/ TransformDotClient
  \/ TransformClientRoute
  \/ TransformModule

\* Several syntheses in a row, of one application with SSR enabled
VersionInit ==
  /\ BuildInit
  /\ ctx.remixConfig.unstable_ssr
  /\ files[RootFile] = Source(<<"default">>)
  /\ files[AboutFile] \in {Source(<<"default">>), Source(<<"loader", "default">>)}

VersionNext ==
  \/ BuildStart
  \/ BuildAssemble
  \/ BuildEnsureDir
  \/ BuildWriteFile
  \/ BuildReturn
  \/ Rebuild

AssetInit ==
  /\ viteManifest \in AssetManifests
  /\ seeds \in NoDupSeqs({<<"entry.js">>, <<"root.js">>}, 2) \ {<<>>}
  /\ walked = [done |-> FALSE, err |-> "none", chunks |-> <<>>]
  /\ ctx = Context(RemixConfig(RoutesOf(TRUE), TRUE, "undefined"), entryClientFilePath,
                   FALSE)
  /\ PluginStarted("build")
  /\ files = <<>>
  /\ build = Idle
  /\ disk = {}
  /\ sha = <<>>
  /\ published = <<>>
  /\ transformed = [result |-> "none"]
  /\ DevIdle

ResolveDependantChunks ==
  /\ ~walked.done
  /\ walked' = [done |-> TRUE] @@ resolveDependantChunks(viteManifest, seeds)
  /\ UNCHANGED <<pluginVars, viteManifest, seeds, buildVars, devVars>>

AssetNext == ResolveDependantChunks

vars == <<assetVars, buildVars, devVars, pluginVars>>

SpecAssets == AssetInit /\ [][AssetNext]_vars

SpecBuild == BuildInit /\ [][BuildNext]_vars

SpecVersion == VersionInit /\ [][VersionNext]_vars

SpecDev == DevInit /\ [][DevNext]_vars

SpecHooks == HooksInit /\ [][HooksNext]_vars

SpecPaths == PathInit /\ [][PathNext]_vars

\* The file-system events a dev server of the manifest specification sees
MaxManifestEvents == 1

\* Manifest synthesis by the SSR build and by the dev server, which loads
\* the server and the browser manifest modules
ManifestInit == BuildInit \/ DevInit

ManifestNext ==
  \/ viteCommand = "build" /\ BuildNext
  \/ /\ viteCommand = "serve"
     /\ DevNext \/ SynthStart(browserManifestId)
     /\ events' <= MaxManifestEvents

SpecManifests == ManifestInit /\ [][ManifestNext]_vars

(***************************************************************************)
(* configResolved: the config file of the bundler and the child compiler   *)
(***************************************************************************)
\* viteConfig before configResolved has assigned it
NotYetResolved == [pending |-> TRUE]

\* a configFile that is undefined
NoConfigFile == <<>>

Aborted(err) == [pc |-> "aborted", err |-> err]

\* a hook that goes on without a config file
ConfigResolvedUnchecked ==
  /\ startup.pc = "config"
  /\ \E configFile \in {NoConfigFile, viteConfigFile} :
       /\ viteConfig' = [configFile |-> configFile]
       /\ startup' = [pc |-> "loadConfig"]
  /\ UNCHANGED <<viteCommand, viteChildCompiler, assetVars, buildVars, devVars>>

\* configResolved up to loadConfigFromFile: viteConfig is assigned and the
\* hook throws when the config has no configFile
ConfigResolved ==
  /\ startup.pc = "config"
  /\ \E configFile \in {NoConfigFile, viteConfigFile} :
       /\ viteConfig' = [configFile |-> configFile]
       /\ startup' = IF configFile = NoConfigFile
                     THEN Aborted("The Remix Vite plugin requires the use of a Vite config file")
                     ELSE [pc |-> "loadConfig"]
  /\ UNCHANGED <<viteCommand, viteChildCompiler, assetVars, buildVars, devVars>>

\* The plugins option of the config file: the plugins of remix() as the
\* array it returns, spread, or nested in the array of a preset, among
\* other plugins and falsy options
ConfigPlugins ==
  { <<PluginArray(RemixPlugins)>>,
    <<PluginObject("vite-tsconfig-paths"), FalsyPlugin, PluginArray(RemixPlugins)>>,
    RemixPlugins \o <<PluginObject("mdx")>>,
    <<PluginArray(<<PluginObject("mdx"), PluginArray(RemixPlugins)>>)>> }

\* the config file could not be loaded
NoConfig == [plugins |-> <<>>, loaded |-> FALSE]

\* await vite.loadConfigFromFile(...) and the invariant on its result
ChildCompilerLoadConfig ==
  /\ startup.pc = "loadConfig"
  /\ \E childCompilerConfigFile \in
          {NoConfig} \cup {[plugins |-> ps, loaded |-> TRUE] : ps \in ConfigPlugins} :
       startup' = IF childCompilerConfigFile = NoConfig
                  THEN Aborted("Vite config file was unable to be resolved for Remix child compiler")
                  ELSE [pc |-> "createServer", config |-> childCompilerConfigFile]
  /\ UNCHANGED <<viteCommand, viteConfig, viteChildCompiler, assetVars, buildVars, devVars>>

\* viteChildCompiler = await vite.createServer(...)
ChildCompilerCreate ==
  /\ startup.pc = "createServer"
  /\ viteChildCompiler' = "created"
  /\ startup' = [pc |-> "buildStart", plugins |-> ChildPlugins(startup.config.plugins)]
  /\ UNCHANGED <<viteCommand, viteConfig, assetVars, buildVars, devVars>>

\* await viteChildCompiler.pluginContainer.buildStart({})
ChildCompilerBuildStart ==
  /\ startup.pc = "buildStart"
  /\ startup' = Ready(startup.plugins)
  /\ UNCHANGED <<viteCommand, viteConfig, viteChildCompiler, assetVars, buildVars, devVars>>

(***************************************************************************)
(* The virtual modules: resolveId and load of remix-virtual-modules,       *)
(* remix-inject-hmr-runtime and remix-hmr-runtime                          *)
(***************************************************************************)
\* a hook that returns undefined
Undefined == <<>>

\* a resolveId that takes every id of the namespace for a virtual module
VirtualModulesResolveAnyId(id) ==
  IF Len(id) = 2 /\ id[1] = "virtual:remix/" THEN VirtualModuleResolve(id) ELSE Undefined

\* remix-virtual-modules resolveId
VirtualModulesResolveId(id) ==
  IF id \in VirtualModules THEN VirtualModuleResolve(id) ELSE Undefined

\* remix-inject-hmr-runtime resolveId
InjectHmrRuntimeResolveId(id) ==
  IF id = injectHmrRuntimeId THEN VirtualModuleResolve(injectHmrRuntimeId) ELSE Undefined

\* remix-hmr-runtime resolveId
HmrRuntimeResolveId(id) ==
  IF id = hmrRuntimeId THEN VirtualModuleResolve(hmrRuntimeId) ELSE Undefined

\* remix-virtual-modules load: the case of the switch the id takes
VirtualModulesLoad(id) ==
  IF id = VirtualModuleResolve(serverBuildId) THEN "getServerEntry"
  ELSE IF id = VirtualModuleResolve(serverManifestId) THEN "serverManifest"
  ELSE IF id = VirtualModuleResolve(browserManifestId) THEN "browserManifest"
  ELSE "undefined"

\* remix-inject-hmr-runtime load
InjectHmrRuntimeLoad(id) ==
  IF id # VirtualModuleResolve(injectHmrRuntimeId) THEN "undefined" ELSE "code"

\* remix-hmr-runtime load
HmrRuntimeLoad(id) ==
  IF id # VirtualModuleResolve(hmrRuntimeId) THEN "undefined" ELSE "code"

DeclaredIds ==
  {serverBuildId, serverManifestId, browserManifestId, hmrRuntimeId, injectHmrRuntimeId}

\* The ids the bundler asks the hooks about: the declared ids, their
\* resolved ids, an undeclared id of the same namespace, a file and a name
RequestedIds ==
  DeclaredIds \cup {VirtualModuleResolve(id) : id \in DeclaredIds}
    \cup {VirtualModuleId("client-manifest"),
          VirtualModuleResolve(VirtualModuleId("client-manifest")),
          Join(appDirectory, RootFile), <<"server-build">>}

\* resolveId of the three plugins, each asked about the id
ResolveVirtualId ==
  /\ transformed.result = "none"
  /\ \E id \in RequestedIds :
       transformed' =
         [hook |-> "resolveId", id |-> id, result |-> "resolved",
          resolved |-> [plugin \in {"remix-virtual-modules", "remix-inject-hmr-runtime",
                                    "remix-hmr-runtime"} |->
                         IF plugin = "remix-virtual-modules"
                         THEN VirtualModulesResolveId(id)
                         ELSE IF plugin = "remix-inject-hmr-runtime"
                         THEN InjectHmrRuntimeResolveId(id)
                         ELSE HmrRuntimeResolveId(id)]]
  /\ UNCHANGED <<pluginVars, ctx, files, build, disk, sha, published, assetVars, devVars>>

\* the load of the browser manifest module throws in a build
OnlyInDevelopment ==
  [pc |-> "done", vmod |-> browserManifestId, started |-> ctx.remixConfig.routes,
   finished |-> ctx.remixConfig.routes, err |-> "This module only exists in development",
   routes |-> <<>>]

\* a server manifest module that takes the production synthesis in every build
LoadServerManifestOfAnyBuild ==
  IF viteCommand = "build" THEN BuildStart ELSE SynthStart(serverManifestId)

\* load of the server manifest module: ctx.getBrowserManifest() in the SSR
\* build, getBrowserManifestForDev() otherwise
LoadServerManifest ==
  IF ctx.isSsrBuild THEN BuildStart ELSE SynthStart(serverManifestId)

\* a browser manifest module that is synthesized in a build too
LoadBrowserManifestInBuildToo == SynthStart(browserManifestId)

\* load of the browser manifest module
LoadBrowserManifest ==
  IF viteCommand = "build"
  THEN /\ synth.pc # "classifying"
       /\ synth' = OnlyInDevelopment
       /\ UNCHANGED <<pluginVars, serverBundlesNow, events, watchers, lastWatch, hmrs,
                      lastHmr, vmods, assetVars, buildVars>>
  ELSE SynthStart(browserManifestId)

\* load of the three plugins for an id that is no manifest module: the
\* server entry, the code of the HMR modules, or undefined
LoadOtherModule ==
  /\ transformed.result = "none"
  /\ \E id \in RequestedIds :
       /\ VirtualModulesLoad(id) \notin {"serverManifest", "browserManifest"}
       /\ transformed' =
            [hook |-> "load", id |-> id,
             result |-> IF \/ VirtualModulesLoad(id) = "getServerEntry"
                           \/ InjectHmrRuntimeLoad(id) = "code"
                           \/ HmrRuntimeLoad(id) = "code"
                        THEN "code" ELSE "undefined"]
  /\ UNCHANGED <<pluginVars, ctx, files, build, disk, sha, published, assetVars, devVars>>

\* buildEnd: await viteChildCompiler?.close(); the variable keeps the
\* closed server
BuildEnd ==
  /\ viteChildCompiler # "closed"
  /\ viteChildCompiler' = IF viteChildCompiler = "null" THEN "null" ELSE "closed"
  /\ UNCHANGED <<viteCommand, viteConfig, startup, assetVars, buildVars, devVars>>

\* The plugin from its start: a dev server, a client build or an SSR build
PluginInit ==
  /\ \E command \in {"serve", "build"}, isSsrBuild \in BOOLEAN :
       /\ isSsrBuild => command = "build"
       /\ viteCommand = command
       /\ ctx = Context(RemixConfig(RoutesOf(TRUE), TRUE, "undefined"),
                        entryClientFilePath, isSsrBuild)
  /\ viteConfig = NotYetResolved
  /\ viteChildCompiler = "null"
  /\ startup = [pc |-> "config"]
  /\ viteManifest = BuildManifest(TRUE, <<"assets", "/", "about-1.js">>, <<>>, <<>>)
  /\ \E a \in {Source(<<"loader", "default">>), Broken("CompileError")} :
       files = [f \in {RootFile, AboutFile} |->
                  IF f = RootFile THEN Source(<<"default">>) ELSE a]
  /\ build = Idle
  /\ disk = {}
  /\ sha = <<>>
  /\ published = <<>>
  /\ transformed = [result |-> "none"]
  /\ seeds = <<>>
  /\ walked = [done |-> FALSE, err |-> "none", chunks |-> <<>>]
  /\ DevIdle

\* configResolved has settled: it returned or it threw
StartupSettled == startup.pc \in {"ready", "aborted"}

PluginNext ==
  \/ ConfigResolved
  \/ ChildCompilerLoadConfig
  \/ ChildCompilerCreate
  \/ ChildCompilerBuildStart
  \/ StartupSettled /\ ResolveVirtualId
  \/ StartupSettled /\ LoadOtherModule
  \/ StartupSettled /\ LoadServerManifest
  \/ StartupSettled /\ LoadBrowserManifest
  \/ SynthFinish
  \/ StartupSettled /\ BuildEnd
  \/ BuildAssemble
  \/ BuildEnsureDir
  \/ BuildWriteFile
  \/ BuildReturn

SpecPlugin == PluginInit /\ [][PluginNext]_vars

(***************************************************************************)
(* invalidateVirtualModules on the module graphs of a dev server: each of  *)
(* the three modules was never loaded, is loaded, or was invalidated       *)
(***************************************************************************)
LoadedManifest(v, hasAbout, random) ==
  LET c == Context(RemixConfig(RoutesOf(hasAbout), TRUE, "fnA"), entryClientFilePath, FALSE)
      routes == AssembleRoutesForDev(c, [k \in RouteKeys(RoutesOf(hasAbout)) |->
                                           <<"default">>]).routes
  IN [state |-> "cached", code |-> ManifestModule(v),
      entry |-> [module |-> resolveFileUrl(c, c.entryClientFilePath), imports |-> <<>>],
      routes |-> routes, version |-> DevVersion(random, routes)]

ModuleStates(v) ==
  IF v = serverBuildId
  THEN {[state |-> "absent"], [state |-> "cached", routes |-> RoutesOf(TRUE)],
        [state |-> "invalid", routes |-> RoutesOf(TRUE)]}
  ELSE {[state |-> "absent"]}
         \cup {LoadedManifest(v, hasAbout, random) :
                 hasAbout \in BOOLEAN, random \in MathRandom}
         \cup {[state |-> "invalid", routes |-> LoadedManifest(v, hasAbout, 25).routes] :
                 hasAbout \in BOOLEAN}

ModuleGraphs == {g \in [VirtualModules -> UNION {ModuleStates(v) : v \in VirtualModules}] :
                   \A v \in VirtualModules : g[v] \in ModuleStates(v)}

InvalidateInit ==
  /\ vmods \in ModuleGraphs
  /\ files = [f \in {RootFile, AboutFile} |-> Source(<<"default">>)]
  /\ serverBundlesNow = "fnA"
  /\ ctx = Context(RemixConfig(RoutesOf(TRUE), TRUE, "fnA"), entryClientFilePath, FALSE)
  /\ PluginStarted("serve")
  /\ events = 0
  /\ watchers = EmptyBag
  /\ lastWatch = [recomputed |-> FALSE, invalidated |-> FALSE]
  /\ hmrs = EmptyBag
  /\ lastHmr = [pc |-> "none", sent |-> 0]
  /\ synth = [pc |-> "idle"]
  /\ viteManifest = <<>>
  /\ seeds = <<>>
  /\ walked = [done |-> FALSE, err |-> "none", chunks |-> <<>>]
  /\ build = Idle
  /\ disk = {}
  /\ sha = <<>>
  /\ published = <<>>
  /\ transformed = [result |-> "none"]

\* invalidateVirtualModules(viteDevServer)
InvalidateVirtualModules ==
  /\ transformed.result = "none"
  /\ transformed' = [hook |-> "invalidateVirtualModules", result |-> "done",
                     before |-> vmods]
  /\ vmods' = invalidateVirtualModules(vmods)
  /\ UNCHANGED <<pluginVars, serverBundlesNow, events, watchers, lastWatch, hmrs, lastHmr,
                 synth, ctx, files, build, disk, sha, published, assetVars>>

InvalidateNext == InvalidateVirtualModules

SpecInvalidate == InvalidateInit /\ [][InvalidateNext]_vars

\* A chain of imports that comes back to one of its chunks
RECURSIVE ReachableFrom(_, _)
ReachableFrom(m, S) ==
  LET next == S \cup UNION { Range(m[k].imports) \cap DOMAIN m : k \in S }
  IN IF next = S THEN S ELSE ReachableFrom(m, next)

Cyclic(m, S) ==
  \E k \in ReachableFrom(m, S) :
    k \in ReachableFrom(m, Range(m[k].imports) \cap DOMAIN m)

\* C1: for every manifest, cyclic ones included, resolveDependantChunks
\* returns (it does not throw) and returns at most as many chunks as the
\* manifest holds.
C1_TerminatesWithinChunkCount ==
  walked.done =>
    /\ walked.err = "none"
    /\ Len(walked.chunks) <= Cardinality(DOMAIN viteManifest)

(***************************************************************************)
(* Manifest synthesis: failures                                            *)
(***************************************************************************)
SynthesisProducedManifest == build.pc \in {"ensureDir", "writeFile", "written", "returned"}

\* The file has a chunk in the manifest, bare or with the client-route suffix
HasChunk(m, absoluteFilePath) ==
  \/ Relative(rootDirectory, absoluteFilePath) \in DOMAIN m
  \/ Relative(rootDirectory, absoluteFilePath) \o CLIENT_ROUTE_QUERY_STRING \in DOMAIN m

RouteSourceFails(route) ==
  route.file \notin DOMAIN files \/ files[route.file].err # "none"

\* The classification of a route fails, or the chunk of the entry or of a
\* route is absent, or the imports reachable from them form a cycle.
SomePartFails ==
  LET routes == ctx.remixConfig.routes
      inputs == {ctx.entryClientFilePath}
                  \cup {Join(appDirectory, routes[i].file) : i \in 1..Len(routes)}
  IN \/ \E i \in 1..Len(routes) : RouteSourceFails(routes[i])
     \/ \E f \in inputs : ~HasChunk(viteManifest, f)
     \/ Cyclic(viteManifest, {resolveChunk(ctx, viteManifest, f).key : f \in inputs}
                               \cap DOMAIN viteManifest)

\* C7: when the classification of a route or the asset resolution of the
\* entry or of a route fails, the synthesis yields no manifest object and
\* writes no manifest file: once it has settled, it has failed.
C7_AllOrNothing ==
  SomePartFails =>
    /\ ~SynthesisProducedManifest
    /\ disk = {}
    /\ published = <<>>
    /\ build.pc \in {"idle", "classifying", "failed"}

C7_Witness ==
  /\ build.pc = "failed"
  /\ RouteSourceFails(AboutRoute)
  /\ ~RouteSourceFails(RootRoute)
  /\ \A f \in {entryClientFilePath, Join(appDirectory, RootFile),
               Join(appDirectory, AboutFile)} : HasChunk(viteManifest, f)

(***************************************************************************)
(* SPA mode checks                                                         *)
(***************************************************************************)
SourceExports(file) ==
  IF file \in DOMAIN files /\ files[file].err = "none"
  THEN files[file].exportNames ELSE <<>>

SpaMode == ~ctx.remixConfig.unstable_ssr

TransformedRoute == getRoute(ctx.remixConfig, transformed.id)

ClientTransformOfRoute ==
  /\ transformed.result # "none"
  /\ ~transformed.ssr
  /\ TransformedRoute # NoRoute

\* C8 as claimed: with SSR disabled and a non-root route exporting loader,
\* manifest synthesis never returns a manifest.
C8_SynthesisRejectsLoader ==
  (SpaMode /\ Includes(SourceExports(AboutFile), "loader")) => build.pc # "returned"

\* C8, amended: with SSR disabled, the client transform of a non-root route
\* module that exports loader throws an error that names loader and the
\* route file.
C8_TransformRejectsLoader ==
  (/\ ClientTransformOfRoute
   /\ SpaMode
   /\ TransformedRoute.parentId # "undefined"
   /\ Includes(SourceExports(TransformedRoute.file), "loader"))
  => /\ transformed.result = "error"
     /\ Includes(transformed.names, "loader")
     /\ transformed.file = TransformedRoute.file

C8_Witness ==
  /\ ClientTransformOfRoute
  /\ SpaMode
  /\ TransformedRoute = AboutRoute
  /\ transformed.result = "error"
  /\ transformed.names = <<"loader">>

\* C9 as claimed: a non-root route exporting HydrateFallback makes the
\* synthesis fail.
C9_SynthesisRejectsHydrateFallback ==
  Includes(SourceExports(AboutFile), "HydrateFallback") => build.pc # "returned"

\* C9, amended: with SSR disabled, the client transform of a non-root route
\* module that exports HydrateFallback throws; for the root route, and for
\* every route when SSR is enabled, the export raises no error.
C9_TransformRejectsHydrateFallback ==
  (ClientTransformOfRoute
     /\ Includes(SourceExports(TransformedRoute.file), "HydrateFallback"))
  => /\ (SpaMode /\ TransformedRoute.parentId # "undefined")
          => transformed.result = "error"
     /\ (~SpaMode
           \/ (TransformedRoute.parentId = "undefined"
                 /\ ServerOnlyExportsOf(SourceExports(TransformedRoute.file)) = <<>>))
          => (transformed.result = "code"
                /\ Includes(transformed.code, "HydrateFallback"))

C9_Witness ==
  /\ ClientTransformOfRoute
  /\ SpaMode
  /\ TransformedRoute = AboutRoute
  /\ transformed.result = "error"
  /\ transformed.names = <<"HydrateFallback">>

(***************************************************************************)
(* The version of the production manifest                                  *)
(***************************************************************************)
Fingerprinted(manifest) == [entry |-> manifest.entry, routes |-> manifest.routes]

\* C10 as claimed: equal {entry, routes} give equal versions, and manifests
\* that differ in the asset path of a route have different versions.
C10_VersionIdentifiesContent ==
  \A i, j \in 1..Len(published) :
    (Fingerprinted(published[i]) = Fingerprinted(published[j]))
      <=> (published[i].version = published[j].version)

\* C10, amended: the version is a function of {entry, routes}: equal
\* {entry, routes} give equal versions, whatever else differs between the
\* two syntheses; and manifests that differ in the asset path of a route
\* hash different sources (their versions, 8 hex digits of the digest, may
\* still be equal).
C10_VersionIsFunctionOfContent ==
  /\ \A i, j \in 1..Len(published) :
       (Fingerprinted(published[i]) = Fingerprinted(published[j]))
         => (published[i].version = published[j].version)
  /\ \A i \in 1..Len(published) :
       /\ JsonFingerprinted(published[i].entry, published[i].routes) \in DOMAIN sha
       /\ published[i].version =
            sha[JsonFingerprinted(published[i].entry, published[i].routes)]
  /\ \A i, j \in 1..Len(published) :
       (Fingerprinted(published[i]) # Fingerprinted(published[j]))
         => JsonFingerprinted(published[i].entry, published[i].routes)
              # JsonFingerprinted(published[j].entry, published[j].routes)

\* two syntheses from different bundler manifests returned the same content
C10_Witness ==
  /\ Len(published) = 2
  /\ Fingerprinted(published[1]) = Fingerprinted(published[2])
  /\ build.pc = "returned"
  /\ build.n = 1

(***************************************************************************)
(* The dev server: invalidation, the watcher and the hot-update event      *)
(***************************************************************************)
\* C2: a recomputation of the context invalidates the virtual modules if
\* and only if the context it computed differs, by deep value equality,
\* from the context that preceded it.
C2_InvalidatesIffContextDiffers ==
  lastWatch.recomputed =>
    (lastWatch.invalidated <=>
       ~isEqualDeep(lastWatch.lastRemixConfig, lastWatch.installed))

\* C2, as the code has it: a recomputation invalidates the virtual modules
\* if and only if the JSON serialization of the config it installed differs
\* from that of the config the handler held when it started; a function
\* such as serverBundles has no part in the comparison.
C2_InvalidatesIffSerializedConfigDiffers ==
  lastWatch.recomputed =>
    (lastWatch.invalidated <=>
       JsonConfig(lastWatch.lastRemixConfig) # JsonConfig(lastWatch.installed))

\* a recomputation has found a route added or removed and has invalidated
\* the server manifest that was in the module graph
C2_Witness ==
  /\ lastWatch.recomputed
  /\ lastWatch.invalidated
  /\ RouteKeys(lastWatch.lastRemixConfig.routes) # RouteKeys(lastWatch.installed.routes)
  /\ vmods[serverManifestId].state = "invalid"

\* C3: a recomputation that resolves to the route manifest the
\* recomputation before it has installed causes no invalidation of the
\* virtual modules.
C3_IdenticalManifestsCauseNoInvalidation ==
  (lastWatch.recomputed
     /\ JsonConfig(lastWatch.installed).routes = JsonConfig(lastWatch.replaced).routes)
    => ~lastWatch.invalidated

\* C4: every call of the hot-update hook, for whatever file has changed,
\* sends exactly one remix:hmr event.
C4_EveryChangeSendsOneEvent ==
  lastHmr.pc \in {"done", "threw"} => lastHmr.sent = 1

\* the path lies below the directory
IsInsideDirectory(path, dir) == StartsWith(path, dir \o <<"/">>)

\* C5: an add event for a path that is not inside the app directory, a
\* sibling directory whose name starts with the name of the app directory
\* included, starts no recomputation of the context.
C5_AddOutsideAppStartsNoRecomputation ==
  \A w \in BagToSet(watchers) :
    w.name = "add" => IsInsideDirectory(w.path, ctx.remixConfig.appDirectory)

\* C6: a synthesis of the dev manifest that was suspended while the
\* context was replaced yields a manifest of the routes of one context, the
\* one it started with or the one it found, and fails only when a route
\* cannot be classified.
C6_SynthesisSeesOneContext ==
  synth.pc = "done" =>
    \/ synth.err \in ClassifyErrors
    \/ /\ synth.err = "none"
       /\ RouteKeys(synth.routes) \in {RouteKeys(synth.started), RouteKeys(synth.finished)}

(***************************************************************************)
(* The hooks on server-only and client-only modules and on route modules   *)
(***************************************************************************)
\* the hook whose call the state records
HookCalled == IF "hook" \in DOMAIN transformed THEN transformed.hook ELSE "none"

\* the name of the file is ".server", with or without an extension after it
NamedDotServer(id) ==
  LET name == Basename(id)
  IN \/ name[Len(name)] = ".server"
     \/ Len(name) >= 2 /\ name[Len(name) - 1] = ".server"

\* a directory on the path is named ".server"
InsideDotServerDirectory(id) ==
  \E i \in 2..(Len(id) - 1) : id[i - 1] = "/" /\ id[i] = ".server" /\ id[i + 1] = "/"

\* The call is the resolution of an import a module of the client graph
\* makes: not the call the hook makes itself, and not the request of a
\* module by the dev server, which has no importer or index.html for one.
ImportOfClientModule ==
  /\ HookCalled = "remix-dot-server"
  /\ ~transformed.ssr
  /\ ~transformed.isResolving
  /\ transformed.importer # NoImporter
  /\ ~(transformed.viteCommand = "serve" /\ transformed.importer = IndexHtml)

\* C11: an import of a module of the client graph that resolves to a
\* .server file or to a file in a .server directory fails with an error that
\* names the id and the importer, in the wording for routes when the
\* importer is a route file; a resolution for the server never fails so.
C11_ClientImportOfServerOnlyModuleFails ==
  HookCalled = "remix-dot-server" =>
    /\ transformed.ssr => transformed.result = "undefined"
    /\ (ImportOfClientModule /\ transformed.resolved.found
          /\ (NamedDotServer(transformed.resolved.id)
                \/ InsideDotServerDirectory(transformed.resolved.id)))
         => /\ transformed.result = "error"
            /\ transformed.names = transformed.id
            /\ transformed.importerShort = Relative(rootDirectory, transformed.importer)
            /\ transformed.routeWording <=> transformed.importer \in RouteModuleIds
    /\ transformed.result = "error" =>
         (NamedDotServer(transformed.resolved.id)
            \/ InsideDotServerDirectory(transformed.resolved.id))

\* a route imports a file of the .server directory in the client build
C11_Witness ==
  /\ HookCalled = "remix-dot-server"
  /\ ImportOfClientModule
  /\ transformed.importer = Join(appDirectory, AboutFile)
  /\ InsideDotServerDirectory(transformed.resolved.id)
  /\ transformed.result = "error"
  /\ transformed.routeWording

\* the name of the file is ".client", with or without an extension after
\* it, or a directory on the path is named ".client"
MarkedClientOnly(id) ==
  LET name == Basename(id)
  IN \/ name[Len(name)] = ".client"
     \/ Len(name) >= 2 /\ name[Len(name) - 1] = ".client"
     \/ \E i \in 2..(Len(id) - 1) :
          id[i - 1] = "/" /\ id[i] = ".client" /\ id[i + 1] = "/"

\* "export default ..." exports default, and a const cannot be named default
WellFormedExport(statement) == statement.kind = "default" <=> statement.name = "default"

ClientSafeNames ==
  {"clientAction", "clientLoader", "default", "ErrorBoundary", "handle",
   "HydrateFallback", "links", "meta", "shouldRevalidate"}

\* C13: the module generated for the ?client-route variant of a route
\* re-exports the names of the route that are in the allowlist, in the order
\* of the source, and no other name; the exports classified are those of
\* the id without the suffix.
C13_ClientRouteVariantReexportsAllowlist ==
  (HookCalled = "remix" /\ EndsWith(transformed.id, CLIENT_ROUTE_QUERY_STRING)) =>
    LET routeModuleId == SubSeq(transformed.id, 1, Len(transformed.id) - 1)
        routeFile == Relative(appDirectory, routeModuleId)
    IN /\ transformed.result \in {"code", "error"}
       /\ transformed.classified = routeModuleId
       /\ transformed.result = "error" <=> RouteSourceFails([file |-> routeFile])
       /\ transformed.result = "code" =>
            /\ transformed.clientExports = Filter(files[routeFile].exportNames,
                                                  ClientSafeNames)
            /\ Range(transformed.clientExports) \cap {"loader", "action", "headers"} = {}
            /\ transformed.from = <<".", "/">> \o Basename(routeModuleId)

\* the variant of a route that exports headers and a name of its own
C13_Witness ==
  /\ HookCalled = "remix"
  /\ transformed.id = Join(appDirectory, AboutFile) \o CLIENT_ROUTE_QUERY_STRING
  /\ files[AboutFile] = Source(<<"helper", "meta", "headers", "default", "links">>)
  /\ transformed.result = "code"
  /\ transformed.clientExports = <<"meta", "default", "links">>

EntryRelativePath == Relative(rootDirectory, Head(seeds))

\* C15: resolveChunk, for a file whose path relative to the root is a key
\* of the manifest neither bare nor with the ?client-route suffix, fails
\* with an error that names the path and lists every key of the manifest;
\* a chunk it returns is a chunk of the manifest.
C15_MissingChunkFailsListingKeys ==
  (walked.done /\ "entryChunk" \in DOMAIN walked) =>
    /\ (EntryRelativePath \notin DOMAIN viteManifest
          /\ EntryRelativePath \o CLIENT_ROUTE_QUERY_STRING \notin DOMAIN viteManifest)
         => /\ walked.entryChunk.err = "NoManifestEntry"
            /\ walked.entryChunk.key = EntryRelativePath
            /\ walked.entryChunk.knownManifestKeys = DOMAIN viteManifest
            /\ walked.paths.err = "NoManifestEntry"
    /\ walked.entryChunk.err = "none" => walked.entryChunk.key \in DOMAIN viteManifest

\* the root route has no chunk under either key
C15_Witness ==
  /\ walked.done
  /\ "entryChunk" \in DOMAIN walked
  /\ Head(seeds) = Join(appDirectory, RootFile)
  /\ KRoot \notin DOMAIN viteManifest
  /\ KRootQ \notin DOMAIN viteManifest
  /\ KEntry \in DOMAIN viteManifest
  /\ walked.entryChunk.err = "NoManifestEntry"

\* C16: resolveChunk returns the chunk of the ?client-route key when the
\* manifest has it, whether or not it has the bare key too, and the chunk
\* of the bare key only when the ?client-route key is absent.
C16_QualifiedKeyIsPreferred ==
  (walked.done /\ "entryChunk" \in DOMAIN walked) =>
    /\ EntryRelativePath \o CLIENT_ROUTE_QUERY_STRING \in DOMAIN viteManifest
         => /\ walked.entryChunk.err = "none"
            /\ walked.entryChunk.key = EntryRelativePath \o CLIENT_ROUTE_QUERY_STRING
    /\ (EntryRelativePath \o CLIENT_ROUTE_QUERY_STRING \notin DOMAIN viteManifest
          /\ EntryRelativePath \in DOMAIN viteManifest)
         => /\ walked.entryChunk.err = "none"
            /\ walked.entryChunk.key = EntryRelativePath

\* the manifest has both keys of the root route
C16_Witness ==
  /\ walked.done
  /\ "entryChunk" \in DOMAIN walked
  /\ Head(seeds) = Join(appDirectory, RootFile)
  /\ {KRoot, KRootQ} \subseteq DOMAIN viteManifest
  /\ walked.entryChunk.key = KRootQ

\* C17: for a manifest that has every key its chunks import,
\* resolveDependantChunks returns the chunks reachable from the entry
\* chunks over the imports, the entry chunks included, every one once.
C17_ReturnsReachableChunksOnce ==
  (walked.done /\ "chunks" \in DOMAIN walked) =>
    /\ walked.err = "none"
    /\ Range(walked.chunks) = ReachableFrom(viteManifest, Range(seeds))
    /\ \A i, j \in 1..Len(walked.chunks) : i # j => walked.chunks[i] # walked.chunks[j]

\* the key resolveChunk finds for a file that has a chunk
ChunkKeyOf(file) ==
  LET rel == Relative(rootDirectory, file)
  IN IF rel \o CLIENT_ROUTE_QUERY_STRING \in DOMAIN viteManifest
     THEN rel \o CLIENT_ROUTE_QUERY_STRING ELSE rel

\* the chunks the entry file and the prepended files depend on
DependencyClosure == ReachableFrom(viteManifest, {ChunkKeyOf(seeds[i]) : i \in 1..Len(seeds)})

NoDuplicates(list) == \A i, j \in 1..Len(list) : i # j => list[i] # list[j]

FlagsFollow(entry, exportNames) ==
  /\ entry.hasLoader = ("loader" \in Range(exportNames))
  /\ entry.hasAction = ("action" \in Range(exportNames))
  /\ entry.hasClientLoader = ("clientLoader" \in Range(exportNames))
  /\ entry.hasClientAction = ("clientAction" \in Range(exportNames))
  /\ entry.hasErrorBoundary = ("ErrorBoundary" \in Range(exportNames))

ManifestRouteKeys(routes) == {routes[i].id : i \in 1..Len(routes)}

FileOfRoute(id) ==
  LET routes == ctx.remixConfig.routes
  IN routes[CHOOSE i \in 1..Len(routes) : routes[i].id = id].file

DevSynthesisProducedManifest == synth.pc = "done" /\ synth.err = "none"

HmrSentRouteMetadata ==
  lastHmr.pc = "done" /\ lastHmr.route # NoRoute

\* C19: in the manifest of the production build, in the manifest of the
\* dev server and in the route metadata of a hot update, the five flags of
\* a route are true exactly when the classified exports of the route hold
\* loader, action, clientLoader, clientAction and ErrorBoundary; the route
\* keys of a manifest are the route keys of the context.
C19_FlagsFollowClassifiedExports ==
  /\ SynthesisProducedManifest =>
       /\ ManifestRouteKeys(build.manifest.routes) = RouteKeys(ctx.remixConfig.routes)
       /\ \A i \in 1..Len(build.manifest.routes) :
            FlagsFollow(build.manifest.routes[i],
                        SourceExports(FileOfRoute(build.manifest.routes[i].id)))
  /\ DevSynthesisProducedManifest =>
       /\ ManifestRouteKeys(synth.routes) = RouteKeys(synth.finished)
       /\ \A i \in 1..Len(synth.routes) :
            FlagsFollow(synth.routes[i], synth.classified[synth.routes[i].id])
  /\ HmrSentRouteMetadata =>
       FlagsFollow(lastHmr.event.data.route, lastHmr.sourceExports)

\* the build with SSR enabled of {root, about}, about exporting loader and default
C19_Witness ==
  /\ SynthesisProducedManifest
  /\ ctx.remixConfig.unstable_ssr
  /\ files[AboutFile] = Source(<<"loader", "default">>)
  /\ \E i \in 1..Len(build.manifest.routes) :
       /\ build.manifest.routes[i].id = AboutRoute.id
       /\ build.manifest.routes[i].hasLoader
       /\ ~build.manifest.routes[i].hasAction
       /\ ~build.manifest.routes[i].hasClientLoader

\* the server and the browser manifest of the dev server, both synthesized
BothManifestsCached ==
  /\ vmods[serverManifestId].state = "cached"
  /\ vmods[browserManifestId].state = "cached"

\* C20 as claimed: in development a synthesis yields a version different
\* from the version of every earlier one.
C20_EveryVersionIsNew ==
  BothManifestsCached =>
    vmods[serverManifestId].version # vmods[browserManifestId].version

\* C20: in development the version of a manifest is the string of a value
\* of Math.random(), whatever the routes of the manifest; manifests with
\* the same routes get different versions when the values differ.
C20_VersionIsRandomString ==
  \A v \in {serverManifestId, browserManifestId} :
    vmods[v].state = "cached" =>
      \E random \in MathRandom : vmods[v].version = StringOfNumber(random)

\* two syntheses of the same routes with different versions
C20_Witness ==
  /\ BothManifestsCached
  /\ vmods[serverManifestId].routes = vmods[browserManifestId].routes
  /\ vmods[serverManifestId].version # vmods[browserManifestId].version

(***************************************************************************)
(* The watcher handler under overlapping events                            *)
(***************************************************************************)
\* C27: a recomputation of the context is started only for an add or an
\* unlink of a path under the app directory or for a change of the config
\* file of the bundler; every other event starts none.
C27_OnlyTriggeringEventsRecompute ==
  \A w \in BagToSet(watchers) :
    \/ w.name \in {"add", "unlink"}
         /\ IsInsideDirectory(w.path, ctx.remixConfig.appDirectory)
    \/ w.name = "change" /\ w.path = viteConfigFile

\* every recomputation that was started has finished
RecomputationsFinished == watchers = EmptyBag /\ lastWatch.recomputed

\* C29: once every recomputation has finished, a manifest module cached in
\* the module graph has the routes of the configuration of the context.
C29_NoStaleModuleAfterRecomputations ==
  (RecomputationsFinished /\ vmods[serverManifestId].state = "cached") =>
    {vmods[serverManifestId].routes[i].id :
       i \in 1..Len(vmods[serverManifestId].routes)}
      = RouteKeys(ctx.remixConfig.routes)

\* C30: once every recomputation has finished, the context is the one
\* resolved from the files and the config as they are after the last event.
C30_LastEventWins ==
  RecomputationsFinished =>
    isEqualJson(ctx.remixConfig, ResolvedContext.remixConfig)

(***************************************************************************)
(* The manifest file of the production synthesis                           *)
(***************************************************************************)
DirectoriesOnDisk == {f.path : f \in {g \in disk : g.kind = "dir"}}

FilesOnDisk == {f \in disk : f.kind = "file"}

\* the text of a version in a path
VersionText(manifest) == ToString(manifest.version)

\* the manifest has its file, complete, in a directory that exists
WrittenInFull(manifest) ==
  \E f \in FilesOnDisk :
    /\ f.path = rootDirectory \o <<"/", "build", "/", "client", "/", "assets", "/",
                                   "manifest-", VersionText(manifest), ".js">>
    /\ f.contents[2].version = manifest.version
    /\ f.contents[2].url = manifest.url
    /\ rootDirectory \o <<"/", "build", "/", "client", "/", "assets">>
         \in DirectoriesOnDisk

\* C22: the production synthesis returns the manifest only after the
\* directory of the manifest file has been created and the file has been
\* written; when creating the directory or writing the file fails, it
\* returns no manifest.
C22_ReturnedOnlyAfterWrite ==
  /\ \A i \in 1..Len(published) : WrittenInFull(published[i])
  /\ build.pc \in {"written", "returned"} => WrittenInFull(build.manifest)
  /\ build.pc = "failed" => Len(published) <= build.n
  /\ Len(published) <= build.n + 1

\* a manifest was returned
C22_Witness ==
  /\ build.pc = "returned"
  /\ published # <<>>
  /\ WrittenInFull(published[Len(published)])

\* C24: the manifest file is assets/manifest-<version>.js below the client
\* build directory, <version> being the version of the manifest returned;
\* the url of the manifest is the publicPath followed by that relative
\* path; the file holds the one assignment of the JSON of the manifest, url
\* and version included, to window.__remixManifest.
C24_ManifestFileNamesAndHoldsManifest ==
  /\ \A f \in FilesOnDisk :
       /\ Len(f.contents) = 3
       /\ f.contents[1] = "window.__remixManifest="
       /\ f.contents[3] = ";"
       /\ DOMAIN f.contents[2] = {"entry", "routes", "url", "version"}
       /\ f.path = rootDirectory \o <<"/", "build", "/", "client", "/", "assets", "/",
                                      "manifest-", ToString(f.contents[2].version), ".js">>
       /\ f.contents[2].url = publicPath \o <<"assets", "/", "manifest-",
                                              ToString(f.contents[2].version), ".js">>
  /\ build.pc \in {"written", "returned"} =>
       \E f \in FilesOnDisk :
         /\ f.contents[2].version = build.manifest.version
         /\ f.contents[2].url = build.manifest.url
         /\ f.contents[2].entry = build.manifest.entry
         /\ Len(f.contents[2].routes) = Len(build.manifest.routes)
         /\ \A i \in 1..Len(build.manifest.routes) :
              \A k \in DOMAIN f.contents[2].routes[i] :
                f.contents[2].routes[i][k] = build.manifest.routes[i][k]

\* the manifest of {root, about} is on disk and was returned
C24_Witness ==
  /\ build.pc = "returned"
  /\ Len(build.manifest.routes) = 2
  /\ \E f \in FilesOnDisk : f.contents[2].version = build.manifest.version

(***************************************************************************)
(* The virtual modules and the start of the plugin                         *)
(***************************************************************************)
ManifestModules == {serverManifestId, browserManifestId}

\* a manifest of the development synthesis is in the module graph
DevManifestLoaded(v) == vmods[v].state = "cached"

\* C21: the development synthesis writes nothing to disk and gives the
\* entry and every route imports: []; a manifest file is written only in
\* an SSR build, where the server manifest module takes the production
\* synthesis and no development synthesis runs.
C21_DevSynthesisWritesNothing ==
  /\ \A v \in ManifestModules :
       DevManifestLoaded(v) =>
         /\ disk = {}
         /\ vmods[v].entry.imports = <<>>
         /\ \A i \in 1..Len(vmods[v].routes) : vmods[v].routes[i].imports = <<>>
  /\ disk # {} => ctx.isSsrBuild /\ viteCommand = "build"
  /\ build.pc # "idle" => ctx.isSsrBuild
  /\ ctx.isSsrBuild => \A v \in ManifestModules : ~DevManifestLoaded(v)

\* a client build has loaded the server manifest module: the development
\* synthesis ran and nothing is on disk
C21_Witness ==
  /\ viteCommand = "build"
  /\ ~ctx.isSsrBuild
  /\ DevManifestLoaded(serverManifestId)
  /\ Len(vmods[serverManifestId].routes) = 2
  /\ disk = {}

\* C23: in a build, client or SSR, the load of the browser manifest module
\* throws and the module gets no content; in development the module is the
\* assignment of the development manifest to window.__remixManifest.
C23_BrowserManifestOnlyInDevelopment ==
  /\ viteCommand = "build" =>
       /\ ~DevManifestLoaded(browserManifestId)
       /\ (synth.pc = "done" /\ synth.vmod = browserManifestId)
            => synth.err = "This module only exists in development"
  /\ (viteCommand = "serve" /\ DevManifestLoaded(browserManifestId)) =>
       /\ vmods[browserManifestId].code = "window.__remixManifest="
       /\ \E random \in MathRandom :
            vmods[browserManifestId].version = <<"0", ".", ToString(random)>>
       /\ {vmods[browserManifestId].routes[i].id :
             i \in 1..Len(vmods[browserManifestId].routes)}
            = RouteKeys(ctx.remixConfig.routes)

\* the load has thrown in an SSR build
C23_Witness ==
  /\ viteCommand = "build"
  /\ ctx.isSsrBuild
  /\ synth.pc = "done"
  /\ synth.vmod = browserManifestId
  /\ synth.err = "This module only exists in development"

\* the hook that was called last
VirtualHookCalled == IF "hook" \in DOMAIN transformed THEN transformed.hook ELSE "none"

\* what the plugins answered to a resolveId
ResolveAnswers ==
  {transformed.resolved[plugin] : plugin \in DOMAIN transformed.resolved} \ {<<>>}

\* C25: the five declared ids are pairwise distinct; resolveId yields the
\* reserved resolved id of a declared id, the same whatever the state of
\* the plugin, and nothing for any other id; load yields content only for
\* the resolved id of a declared id.
C25_DeclaredIdsResolveAndLoad ==
  /\ Cardinality({serverBuildId, serverManifestId, browserManifestId, hmrRuntimeId,
                  injectHmrRuntimeId}) = 5
  /\ VirtualHookCalled = "resolveId" =>
       IF transformed.id \in {serverBuildId, serverManifestId, browserManifestId,
                              hmrRuntimeId, injectHmrRuntimeId}
       THEN ResolveAnswers = {<<"\\0">> \o transformed.id}
       ELSE ResolveAnswers = {}
  /\ (VirtualHookCalled = "load" /\ transformed.result = "code") =>
       \E id \in {serverBuildId, hmrRuntimeId, injectHmrRuntimeId} :
         transformed.id = <<"\\0">> \o id
  /\ \A v \in DOMAIN vmods : vmods[v].state = "cached" =>
       v \in {serverManifestId, browserManifestId}

\* the id of the HMR injector was resolved
C25_Witness ==
  /\ VirtualHookCalled = "resolveId"
  /\ transformed.id = injectHmrRuntimeId
  /\ ResolveAnswers = {<<"\\0", "virtual:remix/", "inject-hmr-runtime">>}

\* configResolved was given a config without a config file
WithoutConfigFile == startup.pc # "config" /\ viteConfig.configFile = NoConfigFile

\* C26: without a config file configResolved throws before a child compiler
\* is created; whatever is loaded afterwards, no route is classified and no
\* manifest is synthesized.
C26_NoConfigFileAbortsStartup ==
  WithoutConfigFile =>
    /\ startup.pc = "aborted"
    /\ viteChildCompiler = "null"
    /\ \A v \in DOMAIN vmods : vmods[v].state = "absent"
    /\ synth.pc = "done" =>
         synth.err \in {"ChildCompilerNotFound", "This module only exists in development"}
    /\ build.pc \in {"idle", "classifying", "failed"}
    /\ disk = {}
    /\ published = <<>>

\* the server manifest module was loaded after the hook threw
C26_Witness ==
  /\ WithoutConfigFile
  /\ startup.pc = "aborted"
  /\ synth.pc = "done"
  /\ synth.err = "ChildCompilerNotFound"

(***************************************************************************)
(* getServerEntry: the source of the server-build virtual module           *)
(***************************************************************************)
entryServerFilePath == Join(appDirectory, <<"entry.server.tsx">>)

\* an index route and a route whose path is matched case-sensitively
IndexRoute ==
  [id |-> "routes/_index", parentId |-> "root", index |-> TRUE,
   file |-> <<"routes", "/", "_index.tsx">>]
DocsRoute ==
  [id |-> "routes/Docs", parentId |-> "root", path |-> "Docs", caseSensitive |-> TRUE,
   file |-> <<"routes", "/", "Docs.tsx">>]

\* JSON.stringify of a string
Quote(str) == <<"\"", str, "\"">>

\* JSON.stringify(route[name]): a field that is missing or undefined gives
\* undefined, which the template prints as the word
JsonField(route, name) ==
  IF name \notin DOMAIN route THEN <<"undefined">>
  ELSE IF name \in {"index", "caseSensitive"}
  THEN <<IF route[name] THEN "true" ELSE "false">>
  ELSE IF route[name] = "undefined" THEN <<"undefined">>
  ELSE Quote(route[name])

\* route${index}, the index counted from 0
RouteBinding(index) == <<"route", ToString(index)>>

\* resolveRelativeRouteFilePath(route, remixConfig)
resolveRelativeRouteFilePath(route, remixConfig) == Join(remixConfig.appDirectory, route.file)

\* a server entry whose table names the binding after the route's own
getServerEntryShifted(c) ==
  LET routes == c.remixConfig.routes
  IN [entryServer |-> Quote(resolveFileUrl(c, entryServerFilePath)),
      imports |-> [i \in 1..Len(routes) |->
                     [binding |-> RouteBinding(i - 1),
                      from |-> Quote(resolveFileUrl(c,
                                 resolveRelativeRouteFilePath(routes[i], c.remixConfig)))]],
      assets |-> Quote(serverManifestId),
      isSpaMode |-> ~c.remixConfig.unstable_ssr,
      publicPath |-> Quote(c.remixConfig.publicPath),
      routes |-> [i \in 1..Len(routes) |->
                    [key |-> Quote(routes[i].id),
                     id |-> JsonField(routes[i], "id"),
                     parentId |-> JsonField(routes[i], "parentId"),
                     path |-> JsonField(routes[i], "path"),
                     index |-> JsonField(routes[i], "index"),
                     caseSensitive |-> JsonField(routes[i], "caseSensitive"),
                     module |-> RouteBinding(i)]]]

\* getServerEntry(): the statements of the generated module, in their order
getServerEntry(c) ==
  LET routes == c.remixConfig.routes
  IN [entryServer |-> Quote(resolveFileUrl(c, entryServerFilePath)),
      imports |-> [i \in 1..Len(routes) |->
                     [binding |-> RouteBinding(i - 1),
                      from |-> Quote(resolveFileUrl(c,
                                 resolveRelativeRouteFilePath(routes[i], c.remixConfig)))]],
      assets |-> Quote(serverManifestId),
      isSpaMode |-> ~c.remixConfig.unstable_ssr,
      publicPath |-> Quote(c.remixConfig.publicPath),
      routes |-> [i \in 1..Len(routes) |->
                    [key |-> Quote(routes[i].id),
                     id |-> JsonField(routes[i], "id"),
                     parentId |-> JsonField(routes[i], "parentId"),
                     path |-> JsonField(routes[i], "path"),
                     index |-> JsonField(routes[i], "index"),
                     caseSensitive |-> JsonField(routes[i], "caseSensitive"),
                     module |-> RouteBinding(i - 1)]]]

\* The route tables of the contexts: the root and any of three more routes
EntryRoutes ==
  { <<RootRoute>> \o a \o b \o d :
      a \in {<<>>, <<AboutRoute>>}, b \in {<<>>, <<IndexRoute>>}, d \in {<<>>, <<DocsRoute>>} }

EntryContexts ==
  { Context(RemixConfig(routes, ssr, "fnA"), entryClientFilePath, FALSE) :
      routes \in EntryRoutes, ssr \in BOOLEAN }

\* The recomputations of the context a behaviour of the entry specification has
MaxEntryEvents == 2

EntryInit ==
  /\ ctx \in EntryContexts
  /\ files = [f \in {RootFile} |-> Source(<<"default">>)]
  /\ serverBundlesNow = "fnA"
  /\ PluginStarted("serve")
  /\ events = 0
  /\ watchers = EmptyBag
  /\ lastWatch = [recomputed |-> FALSE, invalidated |-> FALSE]
  /\ hmrs = EmptyBag
  /\ lastHmr = [pc |-> "none", sent |-> 0]
  /\ vmods = [v \in VirtualModules |-> [state |-> "absent"]]
  /\ synth = [pc |-> "idle"]
  /\ viteManifest = <<>>
  /\ seeds = <<>>
  /\ walked = [done |-> FALSE, err |-> "none", chunks |-> <<>>]
  /\ build = Idle
  /\ disk = {}
  /\ sha = <<>>
  /\ published = <<>>
  /\ transformed = [result |-> "none"]

\* updateRemixPluginContext has replaced the context
EntryContextReplaced ==
  /\ events < MaxEntryEvents
  /\ events' = events + 1
  /\ ctx' \in EntryContexts \ {ctx}
  /\ UNCHANGED <<pluginVars, serverBundlesNow, watchers, lastWatch, hmrs, lastHmr, vmods,
                 synth, files, build, disk, sha, published, transformed, assetVars>>

\* load of the server-build module: return await getServerEntry()
LoadServerBuild ==
  /\ VirtualModulesLoad(VirtualModuleResolve(serverBuildId)) = "getServerEntry"
  /\ transformed' = [hook |-> "load", id |-> VirtualModuleResolve(serverBuildId),
                     result |-> "code", code |-> getServerEntry(ctx),
                     loads |-> events]
  /\ UNCHANGED <<pluginVars, serverBundlesNow, events, watchers, lastWatch, hmrs, lastHmr,
                 vmods, synth, ctx, files, build, disk, sha, published, assetVars>>

EntryNext == EntryContextReplaced \/ LoadServerBuild

SpecServerEntry == EntryInit /\ [][EntryNext]_vars

(***************************************************************************)
(* getRouteModuleExports, step by step: the guard, Promise.all of          *)
(* resolveId, the read of the source and ensureEntryFromUrl, the transform *)
(***************************************************************************)
\* new Error(`Could not resolve module ID for ${url}`)
CouldNotResolve(url) == <<"Could not resolve module ID for ">> \o url

ChildCompilerNotFound == <<"Vite child compiler not found">>

\* the rejection of fse.readFile for a file that is not there
ReadError == <<"ENOENT">>

\* Promise.all rejects with the rejection that comes first; `first` is the
\* promise that settles first when both resolveId and the read reject
PromiseAll(url, resolved, source, first) ==
  IF resolved = "null" /\ source = "ENOENT"
  THEN [err |-> IF first = "resolveId" THEN CouldNotResolve(url) ELSE ReadError]
  ELSE IF resolved = "null" THEN [err |-> CouldNotResolve(url)]
  ELSE IF source = "ENOENT" THEN [err |-> ReadError]
  ELSE [err |-> <<>>, id |-> url, code |-> source]

\* getRouteModuleExports(viteChildCompiler, ctx, routeFile, readRouteFile):
\* `resolved` is what pluginContainer.resolveId gives, `source` what the
\* read gives, `pipeline` what pluginContainer.transform does with the code
RouteModuleExports(compiler, c, routeFile, resolved, source, pipeline, first) ==
  IF compiler = "null"
  THEN [err |-> ChildCompilerNotFound, transformCalled |-> FALSE]
  ELSE LET routePath == Join(c.remixConfig.appDirectory, routeFile)
           url == resolveFileUrl(c, routePath)
           settled == PromiseAll(url, resolved, source, first)
       IN IF settled.err # <<>>
          THEN [err |-> settled.err, transformCalled |-> FALSE]
          ELSE IF pipeline.err # "none"
          THEN [err |-> <<pipeline.err>>, transformCalled |-> TRUE]
          ELSE [err |-> <<>>, transformCalled |-> TRUE,
                exportNames |-> pipeline.exportNames]

ClassifyInit ==
  /\ \E compiler \in {"null", "created"} :
       /\ viteCommand = "serve"
       /\ viteConfig = [configFile |-> Join(rootDirectory, <<"vite.config.ts">>)]
       /\ viteChildCompiler = compiler
       /\ startup = IF compiler = "null"
                    THEN Aborted("Vite config file was unable to be resolved for Remix child compiler")
                    ELSE Ready(ChildPlugins(<<PluginArray(RemixPlugins)>>))
  /\ ctx = Context(RemixConfig(RoutesOf(TRUE), TRUE, "fnA"), entryClientFilePath, FALSE)
  /\ files = <<>>
  /\ serverBundlesNow = "fnA"
  /\ events = 0
  /\ watchers = EmptyBag
  /\ lastWatch = [recomputed |-> FALSE, invalidated |-> FALSE]
  /\ hmrs = EmptyBag
  /\ lastHmr = [pc |-> "none", sent |-> 0]
  /\ vmods = [v \in VirtualModules |-> [state |-> "absent"]]
  /\ synth = [pc |-> "idle"]
  /\ viteManifest = <<>>
  /\ seeds = <<>>
  /\ walked = [done |-> FALSE, err |-> "none", chunks |-> <<>>]
  /\ build = Idle
  /\ disk = {}
  /\ sha = <<>>
  /\ published = <<>>
  /\ transformed = [result |-> "none"]

\* A call of getRouteModuleExports for a route of the context, whatever the
\* child compiler and the file system answer
ClassifyRoute ==
  /\ transformed.result = "none"
  /\ \E i \in 1..Len(ctx.remixConfig.routes),
        resolved \in {"id", "null"},
        source \in {"code", "ENOENT"},
        pipeline \in {Source(<<"default">>), Source(<<"loader", "default">>),
                      Source(<<"action", "clientLoader", "default", "ErrorBoundary">>),
                      Broken("CompileError"), Broken("TransformError")},
        first \in {"resolveId", "readFile"} :
       LET routeFile == ctx.remixConfig.routes[i].file
           out == RouteModuleExports(viteChildCompiler, ctx, routeFile, resolved, source,
                                     pipeline, first)
       IN transformed' = [hook |-> "getRouteModuleExports",
                          result |-> IF out.err = <<>> THEN "exports" ELSE "threw",
                          routeFile |-> routeFile, resolved |-> resolved,
                          source |-> source, pipeline |-> pipeline, first |-> first,
                          out |-> out]
  /\ UNCHANGED <<pluginVars, ctx, files, build, disk, sha, published, assetVars, devVars>>

ClassifyNext == ClassifyRoute

SpecClassify == ClassifyInit /\ [][ClassifyNext]_vars

(***************************************************************************)
(* configureServer: the request handler of the dev server                  *)
(***************************************************************************)
\* a request handler that answers a failed send with nothing
HandleRequestSwallowingSendErrors(loadBuild, handle, send) ==
  IF loadBuild # "ok" THEN [served |-> FALSE, next |-> <<loadBuild>>]
  ELSE IF handle # "ok" THEN [served |-> FALSE, next |-> <<handle>>]
  ELSE IF send # "ok" THEN [served |-> FALSE, next |-> <<>>]
  ELSE [served |-> TRUE, next |-> <<>>]

\* The middleware, for the outcomes of ssrLoadModule(serverBuildId), of the
\* request handler and of toNodeRequest, each "ok" or the error thrown: the
\* response was sent, and the calls of next with their arguments
HandleRequest(loadBuild, handle, send) ==
  IF loadBuild # "ok" THEN [served |-> FALSE, next |-> <<loadBuild>>]
  ELSE IF handle # "ok" THEN [served |-> FALSE, next |-> <<handle>>]
  ELSE IF send # "ok" THEN [served |-> FALSE, next |-> <<send>>]
  ELSE [served |-> TRUE, next |-> <<>>]

\* The requests a behaviour of the dev server receives
MaxRequests == 3

MiddlewareInit ==
  /\ \E middlewareMode \in BOOLEAN :
       viteConfig = [configFile |-> Join(rootDirectory, <<"vite.config.ts">>),
                     middlewareMode |-> middlewareMode]
  /\ viteCommand = "serve"
  /\ viteChildCompiler = "created"
  /\ startup = Ready(ChildPlugins(<<PluginArray(RemixPlugins)>>))
  /\ ctx = Context(RemixConfig(RoutesOf(TRUE), TRUE, "fnA"), entryClientFilePath, FALSE)
  /\ files = [f \in {RootFile, AboutFile} |-> Source(<<"default">>)]
  /\ serverBundlesNow = "fnA"
  /\ events = 0
  /\ watchers = EmptyBag
  /\ lastWatch = [recomputed |-> FALSE, invalidated |-> FALSE]
  /\ hmrs = EmptyBag
  /\ lastHmr = [pc |-> "none", sent |-> 0]
  /\ vmods = [v \in VirtualModules |-> [state |-> "absent"]]
  /\ synth = [pc |-> "idle"]
  /\ viteManifest = <<>>
  /\ seeds = <<>>
  /\ walked = [done |-> FALSE, err |-> "none", chunks |-> <<>>]
  /\ build = Idle
  /\ disk = {}
  /\ sha = <<>>
  /\ published = <<>>
  /\ transformed = [result |-> "none"]

\* the function configureServer returns is called: the middleware is
\* installed unless the server is in middleware mode
InstallMiddleware ==
  /\ transformed.result = "none"
  /\ transformed' = [hook |-> "configureServer", result |-> "returned",
                     installed |-> ~viteConfig.middlewareMode, requests |-> <<>>]
  /\ UNCHANGED <<pluginVars, ctx, files, build, disk, sha, published, assetVars, devVars>>

\* a request reaches the middleware of the plugin
Request ==
  /\ transformed.result = "returned"
  /\ transformed.installed
  /\ Len(transformed.requests) < MaxRequests
  /\ \E loadBuild \in {"ok", "LoadError"}, handle \in {"ok", "HandlerError"},
        send \in {"ok", "SendError"} :
       transformed' =
         [transformed EXCEPT !.requests =
            Append(@, [loadBuild |-> loadBuild, handle |-> handle, send |-> send,
                       out |-> HandleRequest(loadBuild, handle, send)])]
  /\ UNCHANGED <<pluginVars, ctx, files, build, disk, sha, published, assetVars, devVars>>

MiddlewareNext == InstallMiddleware \/ Request

SpecMiddleware == MiddlewareInit /\ [][MiddlewareNext]_vars

(***************************************************************************)
(* config: the inputs of the client build, and the synthesis of the SSR    *)
(* build that reads the manifest the client build has written              *)
(***************************************************************************)
\* inputs that leave the client entry out
ClientBuildInputsOfRoutesOnly(c) ==
  [i \in 1..Len(c.remixConfig.routes) |->
     Join(c.remixConfig.appDirectory, c.remixConfig.routes[i].file)
       \o CLIENT_ROUTE_QUERY_STRING]

\* build.rollupOptions.input of the client build
ClientBuildInputs(c) ==
  <<c.entryClientFilePath>>
    \o [i \in 1..Len(c.remixConfig.routes) |->
          Join(c.remixConfig.appDirectory, c.remixConfig.routes[i].file)
            \o CLIENT_ROUTE_QUERY_STRING]

\* build.manifest: the bundler writes a manifest with a chunk for every
\* input, under the path of the input relative to the root
ManifestOfInputs(c, inputs) ==
  [k \in {Relative(c.rootDirectory, inputs[i]) : i \in 1..Len(inputs)} |->
     [file |-> <<"assets", "/">> \o k \o <<".js">>, imports |-> <<>>, css |-> <<>>]]

\* the files createBrowserManifestForBuild resolves the chunks of
SynthesisFiles(c) ==
  {c.entryClientFilePath}
    \cup {Join(c.remixConfig.appDirectory, c.remixConfig.routes[i].file) :
            i \in 1..Len(c.remixConfig.routes)}

\* The SSR build is about to start; the client build has not run yet
InputsInit ==
  /\ \E hasAbout \in BOOLEAN, ssr \in BOOLEAN :
       ctx = Context(RemixConfig(RoutesOf(hasAbout), ssr, "undefined"),
                     entryClientFilePath, TRUE)
  /\ \E r \in RootSources, a \in AboutSources :
       files = [f \in {RootFile, AboutFile} |-> IF f = RootFile THEN r ELSE a]
  /\ PluginStarted("build")
  /\ viteManifest = <<>>
  /\ build = Idle
  /\ disk = {}
  /\ sha = <<>>
  /\ published = <<>>
  /\ transformed = [result |-> "none"]
  /\ seeds = <<>>
  /\ walked = [done |-> FALSE, err |-> "none", chunks |-> <<>>]
  /\ DevIdle

\* The client build, a session of its own: its config hook sets the inputs
\* from the routes it finds and the bundler writes the manifest
ClientBuild ==
  /\ transformed.result = "none"
  /\ \E hasAbout \in BOOLEAN :
       LET c == Context(RemixConfig(RoutesOf(hasAbout), ctx.remixConfig.unstable_ssr,
                                    "undefined"), entryClientFilePath, FALSE)
       IN /\ viteManifest' = ManifestOfInputs(c, ClientBuildInputs(c))
          /\ transformed' = [hook |-> "config", result |-> "inputs",
                             input |-> ClientBuildInputs(c),
                             routes |-> c.remixConfig.routes]
  /\ UNCHANGED <<pluginVars, seeds, walked, ctx, files, build, disk, sha, published, devVars>>

InputsNext ==
  \/ ClientBuild
  \/ /\ transformed.result = "inputs"
     /\ BuildStart \/ BuildAssemble \/ BuildEnsureDir \/ BuildWriteFile \/ BuildReturn

SpecInputs == InputsInit /\ [][InputsNext]_vars

(***************************************************************************)
(* writeBundle: the assets of an SSR build are moved to the client build   *)
(* directory or removed. In this part viteManifest holds the manifests the *)
(* bundler has written, by build directory, each the sequence of its       *)
(* chunks, and disk the files of the build directories.                    *)
(***************************************************************************)
\* getServerBuildDirectory(ctx), for the default buildDirectory
getServerBuildDirectory(c) ==
  IF c.serverBundleId # "undefined"
  THEN Join(rootDirectory, <<"build", "/", "server", "/", c.serverBundleId>>)
  ELSE Join(rootDirectory, <<"build", "/", "server">>)

\* loadViteManifest(directory)
loadViteManifest(directory) == viteManifest[directory]

\* chunk.assets ?? [] and chunk.css ?? []
ChunkAssets(chunk) == IF "assets" \in DOMAIN chunk THEN chunk.assets ELSE <<>>
ChunkCss(chunk) == IF "css" \in DOMAIN chunk THEN chunk.css ELSE <<>>

\* Object.values(manifest).flatMap(...)
AssetsOf(manifest) == FlatMap([chunk \in Range(manifest) |-> ChunkAssets(chunk)], manifest)
CssOf(manifest) == FlatMap([chunk \in Range(manifest) |-> ChunkCss(chunk)], manifest)

FileAt(d, path) == {f \in d : f.kind = "file" /\ f.path = path}

\* fse.remove(path): the file is gone; no error when it is not there
Remove(d, path) == d \ FileAt(d, path)

\* fse.move(src, dest) of a file that is there to a path that is free
Move(d, src, dest) ==
  Remove(d, src)
    \cup {[kind |-> "file", path |-> dest, contents |-> f.contents] : f \in FileAt(d, src)}

RECURSIVE MoveAssets(_, _, _, _, _)
\* The loop over ssrAssetPaths: fse.move rejects when the source is not
\* there and, overwrite being off, when the destination is; the loop ends
\* with the rejection
MoveAssets(d, ssrAssetPaths, clientAssetPaths, serverDir, clientDir) ==
  IF ssrAssetPaths = <<>> THEN [disk |-> d, err |-> "none"]
  ELSE LET src == Join(serverDir, Head(ssrAssetPaths))
           dest == Join(clientDir, Head(ssrAssetPaths))
       IN IF Head(ssrAssetPaths) \notin clientAssetPaths
          THEN IF FileAt(d, src) = {} THEN [disk |-> d, err |-> "ENOENT"]
               ELSE IF FileAt(d, dest) # {} THEN [disk |-> d, err |-> "dest already exists."]
               ELSE MoveAssets(Move(d, src, dest), Tail(ssrAssetPaths), clientAssetPaths,
                               serverDir, clientDir)
          ELSE MoveAssets(Remove(d, src), Tail(ssrAssetPaths), clientAssetPaths,
                          serverDir, clientDir)

\* The output of a build: assets and a stylesheet with hashed names
LogoAsset == <<"assets", "/", "logo-1.png">>
FontAsset == <<"assets", "/", "font-2.woff">>
RootCss == <<"assets", "/", "root-3.css">>

ClientBundleManifests ==
  { << [file |-> <<"assets", "/", "entry.js">>] >>,
    << [file |-> <<"assets", "/", "entry.js">>, assets |-> <<LogoAsset>>,
        css |-> <<RootCss>>] >>,
    << [file |-> <<"assets", "/", "entry.js">>, assets |-> <<LogoAsset>>],
       [file |-> <<"assets", "/", "root.js">>, assets |-> <<LogoAsset, FontAsset>>,
        css |-> <<RootCss>>] >> }

SsrBundleManifests ==
  { << [file |-> <<"index.js">>] >>,
    << [file |-> <<"index.js">>, assets |-> <<LogoAsset>>, css |-> <<RootCss>>] >>,
    << [file |-> <<"index.js">>, assets |-> <<FontAsset>>, css |-> <<>>] >>,
    << [file |-> <<"index.js">>, assets |-> <<LogoAsset, FontAsset>>],
       [file |-> <<"assets", "/", "chunk.js">>, assets |-> <<FontAsset>>,
        css |-> <<RootCss>>] >> }

\* the files a bundle puts in its directory
FilesOfBundle(directory, manifest, contents) ==
  {[kind |-> "file", path |-> Join(directory, path), contents |-> contents] :
     path \in Range(AssetsOf(manifest)) \cup Range(CssOf(manifest))
                \cup {manifest[i].file : i \in 1..Len(manifest)}}

\* The SSR builds of one build of the application, one for a server bundle
MaxBundles == 2

\* The client build has written its bundle; the session is the client
\* build itself or the SSR build that follows it
BundleInit ==
  /\ \E isSsrBuild \in BOOLEAN, clientViteManifest \in ClientBundleManifests :
       /\ ctx = Context(RemixConfig(RoutesOf(TRUE), TRUE, "undefined"),
                        entryClientFilePath, isSsrBuild)
                  @@ [serverBundleId |-> "undefined"]
       /\ viteManifest = [d \in {clientBuildDirectory} |-> clientViteManifest]
       /\ disk = FilesOfBundle(clientBuildDirectory, clientViteManifest, "client")
  /\ files = [f \in {RootFile, AboutFile} |-> Source(<<"default">>)]
  /\ PluginStarted("build")
  /\ build = Idle
  /\ sha = <<>>
  /\ published = <<>>
  /\ transformed = [result |-> "none"]
  /\ seeds = <<>>
  /\ walked = [done |-> FALSE, err |-> "none", chunks |-> <<>>]
  /\ DevIdle

\* The SSR build of the next server bundle, a session of its own, has
\* written its bundle to its server build directory
SsrBundleWritten ==
  /\ ctx.isSsrBuild
  /\ transformed.result \in {"none", "returned"}
  /\ events < MaxBundles
  /\ events' = events + 1
  /\ ctx' = [ctx EXCEPT !.serverBundleId = ToString(events + 1)]
  /\ \E ssrViteManifest \in SsrBundleManifests :
       /\ viteManifest' =
            [d \in DOMAIN viteManifest \cup {getServerBuildDirectory(ctx')} |->
               IF d = getServerBuildDirectory(ctx') THEN ssrViteManifest
               ELSE viteManifest[d]]
       /\ disk' = disk \cup FilesOfBundle(getServerBuildDirectory(ctx'), ssrViteManifest,
                                          "server")
  /\ transformed' = [result |-> "bundle"]
  /\ UNCHANGED <<pluginVars, seeds, walked, files, build, sha, published, serverBundlesNow,
                 watchers, lastWatch, hmrs, lastHmr, vmods, synth>>

\* writeBundle
WriteBundle ==
  /\ transformed.result = IF ctx.isSsrBuild THEN "bundle" ELSE "none"
  /\ IF ~ctx.isSsrBuild
     THEN /\ disk' = disk
          /\ transformed' = [hook |-> "writeBundle", result |-> "returned", before |-> disk]
     ELSE LET serverBuildDirectory == getServerBuildDirectory(ctx)
              ssrViteManifest == loadViteManifest(serverBuildDirectory)
              clientViteManifest == loadViteManifest(clientBuildDirectory)
              clientAssetPaths == Range(AssetsOf(clientViteManifest))
              ssrAssetPaths == dedupe(AssetsOf(ssrViteManifest))
              ssrCssPaths == CssOf(ssrViteManifest)
              moved == MoveAssets(disk, ssrAssetPaths, clientAssetPaths,
                                  serverBuildDirectory, clientBuildDirectory)
          IN IF moved.err # "none"
             THEN /\ disk' = moved.disk
                  /\ transformed' = [hook |-> "writeBundle", result |-> "threw",
                                     err |-> moved.err, before |-> disk]
             ELSE /\ disk' = {f \in moved.disk :
                                \A i \in 1..Len(ssrCssPaths) :
                                  f.path # Join(serverBuildDirectory, ssrCssPaths[i])}
                  /\ transformed' = [hook |-> "writeBundle", result |-> "returned",
                                     before |-> disk]
  /\ UNCHANGED <<pluginVars, assetVars, ctx, files, build, sha, published, devVars>>

BundleNext == SsrBundleWritten \/ WriteBundle

SpecBundle == BundleInit /\ [][BundleNext]_vars

\* the graph the invalidation was called on
GraphBefore == transformed.before

\* C28: an invalidation invalidates, in one step, every one of the server
\* build, the server manifest and the browser manifest module that is in
\* the module graph, and leaves a module that is not in the graph absent.
C28_InvalidationTakesEveryPresentModule ==
  VirtualHookCalled = "invalidateVirtualModules" =>
    \A v \in {serverBuildId, serverManifestId, browserManifestId} :
      IF GraphBefore[v].state = "absent"
      THEN vmods[v].state = "absent"
      ELSE vmods[v].state = "invalid"

\* two modules were loaded and the third never was
C28_Witness ==
  /\ VirtualHookCalled = "invalidateVirtualModules"
  /\ GraphBefore[serverBuildId].state = "cached"
  /\ GraphBefore[serverManifestId].state = "cached"
  /\ GraphBefore[browserManifestId].state = "absent"
  /\ vmods[serverBuildId].state = "invalid"
  /\ vmods[serverManifestId].state = "invalid"
  /\ vmods[browserManifestId].state = "absent"

\* a call of handleHotUpdate has settled
HotUpdateSettled == lastHmr.pc \in {"done", "threw"}

\* the flags of the entry of the loaded manifest and of the new metadata
FlagsDiffer(old, new) ==
  \/ old.hasLoader # new.hasLoader
  \/ old.hasClientLoader # new.hasClientLoader
  \/ old.hasAction # new.hasAction
  \/ old.hasClientAction # new.hasClientAction
  \/ old.hasErrorBoundary # new.hasErrorBoundary

\* C31: a call of handleHotUpdate for the file of a route invalidates the
\* virtual modules exactly when the loaded server manifest has no entry of
\* the route or one of the five flags of the entry differs from the new
\* metadata; a call for a file that is no route does not invalidate; every
\* call returns the list of affected modules it was given.
C31_HotUpdateInvalidatesOnFlagChange ==
  HotUpdateSettled =>
    /\ "returned" \in DOMAIN lastHmr
    /\ lastHmr.returned = AffectedModules(lastHmr.file)
    /\ IF lastHmr.route = NoRoute
       THEN ~lastHmr.invalidated
       ELSE lastHmr.invalidated <=>
              \/ lastHmr.oldRouteMetadata = NullRoute
              \/ FlagsDiffer(lastHmr.oldRouteMetadata, lastHmr.event.data.route)

\* C31, for the calls that return
C31_ReturningCallsInvalidateOnFlagChange ==
  lastHmr.pc = "done" =>
    /\ lastHmr.returned = AffectedModules(lastHmr.file)
    /\ IF lastHmr.route = NoRoute
       THEN ~lastHmr.invalidated
       ELSE lastHmr.invalidated <=>
              \/ lastHmr.oldRouteMetadata = NullRoute
              \/ FlagsDiffer(lastHmr.oldRouteMetadata, lastHmr.event.data.route)

\* the server-build module was loaded and the context is the one it was
\* loaded from
ServerEntryLoaded ==
  /\ VirtualHookCalled = "load"
  /\ "code" \in DOMAIN transformed
  /\ transformed.loads = events

\* the url a module of the application is imported from
ImportedFrom(file) == <<"\"", <<"/">> \o Relative(rootDirectory, Join(appDirectory, file)), "\"">>

\* the text of a field of a route: a string in quotes, a boolean, or
\* undefined for a field the route has not
Mirrors(text, route, name) ==
  IF name \notin DOMAIN route THEN text = <<"undefined">>
  ELSE IF name \in {"index", "caseSensitive"}
  THEN text = <<IF route[name] THEN "true" ELSE "false">>
  ELSE IF route[name] = "undefined" THEN text = <<"undefined">>
  ELSE text = <<"\"", route[name], "\"">>

\* C32: the server entry generated by a load has, for every route of the
\* context of that moment and for nothing else, one import binding of the
\* route's file and one table entry under the route's key whose module is
\* that binding and whose id, parentId, path, index and caseSensitive are
\* the route's.
C32_ServerEntryMirrorsRoutes ==
  ServerEntryLoaded =>
    LET e == transformed.code
        routes == ctx.remixConfig.routes
    IN /\ Len(e.imports) = Len(routes)
       /\ Len(e.routes) = Len(routes)
       /\ \A i, j \in 1..Len(e.imports) :
            i # j => e.imports[i].binding # e.imports[j].binding
       /\ \A r \in 1..Len(routes) :
            /\ Cardinality({i \in 1..Len(e.imports) :
                              e.imports[i].from = ImportedFrom(routes[r].file)}) = 1
            /\ Cardinality({i \in 1..Len(e.routes) :
                              e.routes[i].key = <<"\"", routes[r].id, "\"">>}) = 1
            /\ \A i \in 1..Len(e.routes), j \in 1..Len(e.imports) :
                 (/\ e.routes[i].key = <<"\"", routes[r].id, "\"">>
                  /\ e.imports[j].from = ImportedFrom(routes[r].file))
                   => /\ e.routes[i].module = e.imports[j].binding
                      /\ Mirrors(e.routes[i].id, routes[r], "id")
                      /\ Mirrors(e.routes[i].parentId, routes[r], "parentId")
                      /\ Mirrors(e.routes[i].path, routes[r], "path")
                      /\ Mirrors(e.routes[i].index, routes[r], "index")
                      /\ Mirrors(e.routes[i].caseSensitive, routes[r], "caseSensitive")

\* a second load, after the context was replaced, of a context of four
\* routes: the index route is imported as route2
C32_Witness ==
  /\ ServerEntryLoaded
  /\ events = 2
  /\ Len(ctx.remixConfig.routes) = 4
  /\ transformed.code.routes[3].module = <<"route", "2">>
  /\ transformed.code.routes[3].index = <<"true">>
  /\ transformed.code.routes[3].path = <<"undefined">>
  /\ transformed.code.imports[3].from = <<"\"", <<"/", "app", "/", "routes", "/", "_index.tsx">>, "\"">>

\* the URLs of the stylesheets and of the output files of the chunks the
\* chunks of the files depend on
ClosureOf(filePaths) == ReachableFrom(viteManifest, {ChunkKeyOf(f) : f \in filePaths})

StylesheetsOf(keys) ==
  UNION { {publicPath \o viteManifest[k].css[j] : j \in 1..Len(viteManifest[k].css)} :
          k \in keys }

OutputsOf(keys) == {publicPath \o viteManifest[k].file : k \in keys}

\* C33: in a manifest of the production synthesis the css of the root
\* route, the route without a parent, holds every stylesheet of the chunks
\* the client entry depends on, and the imports and the css of any other
\* route hold only assets of the chunks its own chunk depends on.
C33_EntryAssetsGoToRootRouteOnly ==
  SynthesisProducedManifest =>
    \A i \in 1..Len(build.manifest.routes) :
      LET entry == build.manifest.routes[i]
          route == ctx.remixConfig.routes[i]
          own == ClosureOf({Join(appDirectory, route.file)})
      IN IF route.parentId = "undefined"
         THEN /\ StylesheetsOf(ClosureOf({entryClientFilePath})) \subseteq Range(entry.css)
              /\ Range(entry.css) = StylesheetsOf(ClosureOf({entryClientFilePath}) \cup own)
         ELSE /\ Range(entry.css) = StylesheetsOf(own)
              /\ Range(entry.imports) \subseteq OutputsOf(own)

\* the root route lists the stylesheets of the entry and of the chunk the
\* entry imports; the other route lists only that of the shared chunk
C33_Witness ==
  /\ SynthesisProducedManifest
  /\ build.manifest.routes[1].id = "root"
  /\ Range(build.manifest.routes[1].css)
       = { publicPath \o <<"assets", "/", "entry.css">>,
           publicPath \o <<"assets", "/", "shared.css">> }
  /\ build.manifest.routes[2].id = "routes/about"
  /\ build.manifest.routes[2].css = << publicPath \o <<"assets", "/", "shared.css">> >>
  /\ build.manifest.routes[2].imports = << publicPath \o <<"assets", "/", "shared.js">> >>

\* the child compiler was created: the plugins it was given
ChildCompilerPlugins == IF "plugins" \in DOMAIN startup THEN startup.plugins ELSE <<>>

\* C34: the plugins the child compiler is created with hold no plugin
\* named remix or remix-hmr-updates, whatever the shape of the plugins
\* option of the config file, so that the creation of the child compiler
\* creates no further child compiler.
C34_ChildCompilerHasNoRemixPlugin ==
  /\ \A i \in 1..Len(ChildCompilerPlugins) :
       /\ ChildCompilerPlugins[i].kind = "plugin"
       /\ ChildCompilerPlugins[i].name \notin {"remix", "remix-hmr-updates"}
  /\ ~CreatesChildCompiler(ChildCompilerPlugins)

\* the child compiler was created from a config that spreads the plugins
\* of remix() before another plugin
C34_Witness ==
  /\ startup.pc = "buildStart"
  /\ viteChildCompiler = "created"
  /\ Len(ChildCompilerPlugins) = 8
  /\ ChildCompilerPlugins[1].name = "remix-virtual-modules"
  /\ ChildCompilerPlugins[8].name = "mdx"

\* a classification of the routes is running, for the dev or for the
\* production synthesis
ClassificationRunning == synth.pc = "classifying" \/ build.pc = "classifying"

\* a classification has returned export lists
ClassificationReturned ==
  \/ synth.pc = "done" /\ synth.err = "none"
  \/ build.pc \in {"ensureDir", "writeFile", "written", "returned"}

\* C35: the child compiler exists from its creation in configResolved on
\* and is closed by buildEnd; a classification runs only while the child
\* compiler is created and not closed, and without a child compiler it
\* returns no export list.
C35_ClassificationBetweenCreationAndClose ==
  /\ viteChildCompiler = "null"
       <=> startup.pc \in {"config", "loadConfig", "createServer", "aborted"}
  /\ viteChildCompiler = "null" => ~ClassificationReturned
  /\ ClassificationRunning => viteChildCompiler \in {"null", "created"}

\* getRouteModuleExports was called with a child compiler
Classified == VirtualHookCalled = "getRouteModuleExports" /\ viteChildCompiler # "null"

\* the url of the route file the call was for
ClassifiedUrl == <<"/">> \o Relative(rootDirectory, Join(appDirectory, transformed.routeFile))

\* C36: a classification whose module id cannot be resolved returns no
\* export list and fails with the error that names the url; one whose
\* transform fails returns no export list and fails with the error of the
\* pipeline; the transform is called only when the id was resolved and the
\* source was read.
C36_FailsWithTheErrorOfTheFailedStep ==
  Classified =>
    /\ transformed.resolved = "null" =>
         /\ transformed.result = "threw"
         /\ transformed.out.err = <<"Could not resolve module ID for ">> \o ClassifiedUrl
    /\ (transformed.out.transformCalled /\ transformed.pipeline.err # "none") =>
         /\ transformed.result = "threw"
         /\ transformed.out.err = <<transformed.pipeline.err>>
    /\ transformed.out.transformCalled =>
         transformed.resolved = "id" /\ transformed.source = "code"
    /\ transformed.result = "exports" =>
         /\ transformed.out.transformCalled
         /\ transformed.out.exportNames = transformed.pipeline.exportNames

\* C36, with the error left open when the read of the source fails too
C36_FailsWhenAStepFails ==
  Classified =>
    /\ transformed.resolved = "null" =>
         /\ transformed.result = "threw"
         /\ \/ transformed.out.err = <<"Could not resolve module ID for ">> \o ClassifiedUrl
            \/ transformed.source = "ENOENT" /\ transformed.out.err = <<"ENOENT">>
    /\ (transformed.out.transformCalled /\ transformed.pipeline.err # "none") =>
         /\ transformed.result = "threw"
         /\ transformed.out.err = <<transformed.pipeline.err>>
    /\ transformed.out.transformCalled =>
         transformed.resolved = "id" /\ transformed.source = "code"

\* the requests the middleware of the plugin has handled
RequestsHandled ==
  IF VirtualHookCalled = "configureServer" THEN transformed.requests ELSE <<>>

\* the error the steps of a request raise first, if any
ErrorsRaised(request) ==
  IF request.loadBuild # "ok" THEN {request.loadBuild}
  ELSE IF request.handle # "ok" THEN {request.handle}
  ELSE IF request.send # "ok" THEN {request.send}
  ELSE {}

\* C37: outside middleware mode every request whose load of the server
\* build, handler or response raises an error passes that error to next
\* exactly once, every other request is served without a call of next,
\* whatever happened to the requests before it; in middleware mode no
\* handler is installed.
C37_RequestErrorsGoToNextOnce ==
  /\ \A i \in 1..Len(RequestsHandled) :
       LET request == RequestsHandled[i]
       IN IF ErrorsRaised(request) = {}
          THEN request.out.served /\ request.out.next = <<>>
          ELSE /\ ~request.out.served
               /\ Len(request.out.next) = 1
               /\ request.out.next[1] \in ErrorsRaised(request)
  /\ (VirtualHookCalled = "configureServer" /\ viteConfig.middlewareMode) =>
       ~transformed.installed /\ transformed.requests = <<>>

\* the load of the server build failed for a request, the response of the
\* next could not be sent, and the request after them was served
C37_Witness ==
  /\ Len(RequestsHandled) = 3
  /\ RequestsHandled[1].out.next = <<"LoadError">>
  /\ RequestsHandled[2].out.next = <<"SendError">>
  /\ RequestsHandled[3].out.served

\* the client build has run: the files of its inputs, the suffix taken off
ClientBuildFiles ==
  {LET input == transformed.input[i]
   IN IF EndsWith(input, <<"?client-route">>) THEN SubSeq(input, 1, Len(input) - 1)
      ELSE input : i \in 1..Len(transformed.input)}

ClientBuildRan == VirtualHookCalled = "config"

\* the routes of the SSR build are those the client build had
RouteSetUnchanged == ClientBuildRan /\ transformed.routes = ctx.remixConfig.routes

\* C38: the inputs of the client build are the client entry, bare, and the
\* file of every route with the ?client-route suffix, the very files the
\* production synthesis resolves the chunks of; when the routes are those
\* of the client build the synthesis does not fail for a missing chunk.
C38_SynthesisResolvesTheClientBuildInputs ==
  ClientBuildRan =>
    /\ transformed.input[1] = entryClientFilePath
    /\ \A i \in 2..Len(transformed.input) :
         EndsWith(transformed.input[i], <<"?client-route">>)
    /\ RouteSetUnchanged =>
         /\ ClientBuildFiles = SynthesisFiles(ctx)
         /\ \A f \in SynthesisFiles(ctx) : HasChunk(viteManifest, f)
         /\ build.pc = "failed" => build.err # "NoManifestEntry"

\* a synthesis over the two routes the client build had has returned
C38_Witness ==
  /\ RouteSetUnchanged
  /\ Len(ctx.remixConfig.routes) = 2
  /\ Len(transformed.input) = 3
  /\ build.pc = "returned"

\* writeBundle has run; the files before it and the directories
WriteBundleRan == VirtualHookCalled = "writeBundle"

ServerDirectory ==
  IF ctx.serverBundleId = "undefined" THEN <<"/", "p", "/", "build", "/", "server">>
  ELSE <<"/", "p", "/", "build", "/", "server", "/", ctx.serverBundleId>>

ClientDirectory == <<"/", "p", "/", "build", "/", "client">>

FilesAt(d, path) == {f \in d : f.path = path}

ListedAssets(manifest) ==
  UNION { IF "assets" \in DOMAIN manifest[i] THEN Range(manifest[i].assets) ELSE {} :
          i \in 1..Len(manifest) }

ListedCss(manifest) ==
  UNION { IF "css" \in DOMAIN manifest[i] THEN Range(manifest[i].css) ELSE {} :
          i \in 1..Len(manifest) }

\* C39: after writeBundle of an SSR build no asset of the SSR manifest is
\* left in the server build directory: one the client manifest does not
\* list is in the client build directory under the same relative path, one
\* it lists has lost its server copy and kept its client copy, and no
\* stylesheet of the SSR manifest is left; writeBundle of a build that is
\* not an SSR build leaves the files as they were.
C39_SsrAssetsLeaveTheServerBuild ==
  WriteBundleRan =>
    IF ~ctx.isSsrBuild THEN disk = transformed.before
    ELSE LET ssr == viteManifest[ServerDirectory]
             client == viteManifest[ClientDirectory]
         IN /\ \A path \in ListedAssets(ssr) :
                 /\ FilesAt(disk, ServerDirectory \o <<"/">> \o path) = {}
                 /\ IF path \in ListedAssets(client)
                    THEN FilesAt(disk, ClientDirectory \o <<"/">> \o path)
                           = FilesAt(transformed.before, ClientDirectory \o <<"/">> \o path)
                    ELSE {f.contents : f \in FilesAt(disk, ClientDirectory \o <<"/">> \o path)}
                           = {f.contents : f \in FilesAt(transformed.before,
                                                        ServerDirectory \o <<"/">> \o path)}
            /\ \A path \in ListedCss(ssr) :
                 FilesAt(disk, ServerDirectory \o <<"/">> \o path) = {}

\* C39, for a writeBundle that has returned
C39_ReturnedWriteBundleMovesAssets ==
  (WriteBundleRan /\ transformed.result = "returned") =>
    IF ~ctx.isSsrBuild THEN disk = transformed.before
    ELSE LET ssr == viteManifest[ServerDirectory]
             client == viteManifest[ClientDirectory]
         IN /\ \A path \in ListedAssets(ssr) :
                 /\ FilesAt(disk, ServerDirectory \o <<"/">> \o path) = {}
                 /\ IF path \in ListedAssets(client)
                    THEN FilesAt(disk, ClientDirectory \o <<"/">> \o path)
                           = FilesAt(transformed.before, ClientDirectory \o <<"/">> \o path)
                    ELSE {f.contents : f \in FilesAt(disk, ClientDirectory \o <<"/">> \o path)}
                           = {"server"}
            /\ \A path \in ListedCss(ssr) :
                 FilesAt(disk, ServerDirectory \o <<"/">> \o path) = {}

=============================================================================
